---- MODULE Spec2Model ----
(***************************************************************************)
(* Verification model of the ORCA automation pipeline's job engine:        *)
(* StateStore (state_store.py), JobManager / ORCAExecutor (job.py), the    *)
(* output classifier (safe_file_utils.py, orca_output_utils.py),           *)
(* unique_path (path_utils.py) and the watcher / host loop (main.py).      *)
(*                                                                         *)
(* Paths are sequences of name tokens: the file "m1_freq_1.inp" of the     *)
(* waiting directory is <<"m1", "freq", "1">>.  The epoch-seconds          *)
(* component of a directory name is the single token "T": every event of   *)
(* a run falls in the same second, the case in which unique_path has to    *)
(* disambiguate.                                                           *)
(*                                                                         *)
(* Every thread of the program is a process of the model: the workers,     *)
(* the watcher thread (XYZHandler.on_created), and the main thread         *)
(* (JobManager.start, _recover_on_start, the host loop).  A StateStore     *)
(* mutation is a load of the file followed by an atomic replace of the     *)
(* file; the two are separate steps, as the code takes no lock.            *)
(***************************************************************************)
EXTENDS Integers, Sequences, FiniteSets, TLC

\* ------------------------------------------------------------------ bounds
\* Molecules whose geometry file is dropped into the input directory.
MaxMol == 1
\* Molecules dropped in the runs of two concurrent, normally ending jobs.
MaxMolPar == 2
\* Process crashes (kill, power loss) followed by a restart.
MaxCrash == 2
\* Largest value of the configured max_retries drawn in Init.
MaxRetriesCfg == 1
\* Fresh job ids (uuid fragments) that may be drawn.
MaxId == 3
\* Worker threads in the runs that crash and restart.
MaxWorkersCrash == 1
\* Threads that mutate one StateStore file at the same time.
MaxWriters == 2
\* Job ids the mutations of that file enqueue and dequeue.
MaxStoreId == 2
\* Inodes of the state directory's file system.
MaxIno == 4
\* appends to one list file that are followed
MaxAppends == 3
MaxQueueId == 3
\* Polls of the notifier's monitor loop that are followed.
MaxPolls == 4
\* Values of notification.threshold and notification.debounce_seconds drawn
\* in the runs of the monitor loop.
Thresholds == {0, 1}
Debounces == {3, 12}
\* Worker threads: orca.max_parallel_jobs.
max_parallel == 2

MolOf(i) == <<"m1", "m2", "m3">>[i]

\* ------------------------------------------------------------ job records
OPT == "opt"
FREQ == "freq"
NoDir == <<>>

\* ORCAJob(inp_path, xyz_path, job_type) with its dataclass defaults.
ORCAJob(inp, kind) ==
    [id |-> 0, inp |-> inp, kind |-> kind, retries |-> 0,
     status |-> "waiting", wd |-> NoDir, err |-> ""]

weight(job) == IF job.kind = OPT THEN 2 ELSE 1

\* ORCAJob.to_dict: asdict with the paths as strings; an unset work_dir
\* stays unset.
to_dict(job) ==
    [id |-> job.id, inp |-> job.inp, kind |-> job.kind,
     retries |-> job.retries, status |-> job.status,
     wd |-> IF job.wd # NoDir THEN job.wd ELSE NoDir, err |-> job.err]

\* ORCAJob.from_dict: the job built from the fields of a persisted record;
\* job_id is d.get('job_id'), an empty work_dir becomes None.
from_dict(d) ==
    [id |-> d.id, inp |-> d.inp, kind |-> d.kind, retries |-> d.retries,
     status |-> d.status, wd |-> IF d.wd # NoDir THEN d.wd ELSE NoDir,
     err |-> d.err]

\* The jobs of a persisted list taken last record first.
FromDicts_Reversed(list) ==
    [k \in 1..Len(list) |-> from_dict(list[Len(list) + 1 - k])]

\* The jobs of a persisted list: [ORCAJob.from_dict(j) for j in load()].
FromDicts(list) == [k \in 1..Len(list) |-> from_dict(list[k])]

\* add_job drawing a new id for every job it is handed.
AssignId_AlwaysFresh(job, fresh) == [job EXCEPT !.id = fresh]

\* add_job, lines 193-194: a job without an id gets unique_job_id(...).
AssignId(job, fresh) == IF job.id = 0 THEN [job EXCEPT !.id = fresh] ELSE job

\* ------------------------------------------------------------- path_utils
Sfx == <<"1", "2", "3", "4", "5", "6">>

\* unique_path(base): base if it does not exist, else the first of
\* base_1, base_2, ... that does not exist.
unique_path(base, existing) ==
    IF base \notin existing THEN base
    ELSE LET i == CHOOSE k \in 1..Len(Sfx) :
                     /\ Append(base, Sfx[k]) \notin existing
                     /\ \A l \in 1..(k - 1) : Append(base, Sfx[l]) \in existing
         IN  Append(base, Sfx[i])

\* JobManager._molecule_name: strip a trailing _opt or _freq.
MoleculeName(stem) ==
    IF Len(stem) > 1 /\ stem[Len(stem)] \in {"opt", "freq"}
    THEN SubSeq(stem, 1, Len(stem) - 1)
    ELSE stem

\* ------------------------------------------------------ solver output text
\* An output file: whether it exists, the markers its text contains, and
\* whether it holds a CARTESIAN COORDINATES (ANGSTROEM) block.
Marks == {"NORMAL", "FATAL", "RECOV", "ERROR"}
NoFile == [exists |-> FALSE, marks |-> {}, coords |-> FALSE]
Text(marks, coords) == [exists |-> TRUE, marks |-> marks, coords |-> coords]

\* The classifier with the recoverable patterns searched before the fatal ones.
is_orca_definitely_complete_RecoverableFirst(text) ==
    IF "NORMAL" \in text.marks THEN <<TRUE, FALSE, FALSE>>
    ELSE IF "RECOV" \in text.marks THEN <<TRUE, TRUE, FALSE>>
    ELSE IF "FATAL" \in text.marks THEN <<TRUE, FALSE, TRUE>>
    ELSE IF "ERROR" \in text.marks THEN <<TRUE, TRUE, FALSE>>
    ELSE <<FALSE, FALSE, FALSE>>

\* is_orca_definitely_complete(text): (is_complete, is_recoverable, is_fatal)
is_orca_definitely_complete(text) ==
    IF "NORMAL" \in text.marks THEN <<TRUE, FALSE, FALSE>>
    ELSE IF "FATAL" \in text.marks THEN <<TRUE, FALSE, TRUE>>
    ELSE IF "RECOV" \in text.marks THEN <<TRUE, TRUE, FALSE>>
    ELSE IF "ERROR" \in text.marks THEN <<TRUE, TRUE, FALSE>>
    ELSE <<FALSE, FALSE, FALSE>>

\* safe_parse_orca_output(out_path): (success, is_recoverable, is_fatal)
safe_parse_orca_output(text) ==
    LET c == is_orca_definitely_complete(text) IN
    IF c[1] /\ ~c[2] /\ ~c[3] THEN <<TRUE, FALSE, FALSE>>
    ELSE IF c[1] /\ c[3] THEN <<FALSE, FALSE, TRUE>>
    ELSE IF c[1] /\ c[2] THEN <<FALSE, TRUE, FALSE>>
    ELSE <<FALSE, FALSE, FALSE>>

\* The texts the solver is taken to write: normal termination with and
\* without a coordinate block, a fatal pattern, a recoverable pattern, and a
\* text with no marker at all.
SolverTexts ==
    { Text({"NORMAL"}, TRUE), Text({"NORMAL"}, FALSE), Text({"FATAL"}, FALSE),
      Text({"RECOV"}, FALSE), Text({}, FALSE) }

\* Every text: any combination of the normal-termination marker, a fatal
\* pattern, a recoverable pattern and the generic ERROR token, the empty
\* combination included, with or without a coordinate block.
AllTexts == {Text(m, c) : m \in SUBSET Marks, c \in BOOLEAN}

\* The result triple of ORCAExecutor.run as one outcome name.
OutcomeOf(t) ==
    IF t[1] THEN "success"
    ELSE IF t[3] THEN "fatal"
    ELSE IF t[2] THEN "recoverable"
    ELSE "incomplete"

\* run taking a missing primary output for an incomplete run.
RunResult_NoOutputIncomplete(out) ==
    IF ~out.exists THEN <<FALSE, FALSE, FALSE>> ELSE safe_parse_orca_output(out)

\* ORCAExecutor.run after the solver exits: no primary output is fatal,
\* otherwise the parsed classification.
RunResult(out) ==
    IF ~out.exists THEN <<FALSE, FALSE, TRUE>> ELSE safe_parse_orca_output(out)

\* ORCAExecutor.run, lines 106, 117, 122 and 127: job.error_message after
\* the solver has exited; a successful run leaves the old message.
ErrorMessage(out, old) ==
    IF ~out.exists THEN "Primary output not found"
    ELSE LET r == safe_parse_orca_output(out) IN
         IF r[1] THEN old
         ELSE IF r[3] THEN "Fatal ORCA error"
         ELSE IF r[2] THEN "Recoverable ORCA error"
         ELSE "Incomplete execution"

\* ------------------------------------------------------------- StateStore
HasId(list, id) == \E i \in 1..Len(list) : list[i].id = id
CountId(list, id) == Cardinality({i \in 1..Len(list) : list[i].id = id})
Ids(list) == {list[i].id : i \in 1..Len(list)}

\* enqueue appending whatever it is handed.
enqueue_NoDedupe(q, job) == Append(q, job)

\* StateStore.enqueue / add_running: the list written back for snapshot q
\* (the file is rewritten only when the id is new; the content is the same).
enqueue(q, job) == IF ~HasId(q, job.id) THEN Append(q, job) ELSE q
add_running(r, job) == IF ~HasId(r, job.id) THEN Append(r, job) ELSE r
\* StateStore.dequeue / remove_running
dequeue(q, id) == SelectSeq(q, LAMBDA j : j.id # id)
remove_running(r, id) == SelectSeq(r, LAMBDA j : j.id # id)
\* StateStore.append_completed
append_completed(c, job) == Append(c, job)

\* ------------------------------------------------------------------ state
VARIABLES
    sq,          \* state/queue.json: the persisted queued list
    sr,          \* state/running.json: the persisted running list
    sc,          \* state/completed.json: the persisted completed list
    waiting,     \* waiting/: the stems of the *.inp decks that exist
    working,     \* working/: the work_dirs, [name, out: the primary output]
    products,    \* products/: archive directories, oldest mtime first
    job_queue,   \* JobManager.job_queue (FIFO of ORCAJob)
    running,     \* JobManager.running: work_dir name -> job
    run,         \* JobManager._run
    fatal,       \* JobManager._fatal_error_occurred
    max_retries, \* JobManager.max_retries (configuration)
    wk,          \* the worker threads: position and locals of _worker
    wt,          \* the watcher thread: position and locals of on_created
    mt,          \* the main thread: start, _recover_on_start, host loop
    nextId,      \* the next fresh id unique_job_id draws
    crashes,     \* process crashes so far
    dropped,     \* molecules whose .xyz was dropped into input/
    hist,        \* history: what the run has done so far (see HistInit)
    fs,          \* one StateStore file at the level of _atomic_write
    nt,          \* the notifier: its fields and its monitor thread
    dk,          \* the [orca] solvent settings and the decks written from them
    rd,          \* one call of safe_parse_orca_output: its reads and result
    ls           \* one call of resolve_primary_output: directory and result

Workers == DOMAIN wk

vars == <<sq, sr, sc, waiting, working, products, job_queue, running, run,
          fatal, max_retries, wk, wt, mt, nextId, crashes, dropped, hist, fs,
          nt, dk, rd, ls>>

\* Everything but fs.
engine == <<sq, sr, sc, waiting, working, products, job_queue, running, run,
            fatal, max_retries, wk, wt, mt, nextId, crashes, dropped, hist,
            nt, dk, rd, ls>>

disk == <<sq, sr, sc, waiting, working, products>>

\* JobManager.get_weighted_task_count: the weights of the jobs in the FIFO
\* plus the weights of the jobs in the running map (read here in one step).
RECURSIVE SeqWeight(_)
SeqWeight(q) == IF q = <<>> THEN 0 ELSE weight(Head(q)) + SeqWeight(Tail(q))
MapWeight(m) == 2 * Cardinality({r \in m : r.kind = OPT})
                + Cardinality({r \in m : r.kind # OPT})
get_weighted_task_count == SeqWeight(job_queue) + MapWeight(running)

\* ------------------------------------------ safe_read_text (13-29), in ms
max_attempts == 5
backoff_start == 100

\* The file read, or None after the last failure.
NoText == [exists |-> FALSE, marks |-> {"unread"}, coords |-> FALSE]

\* A loop that sleeps after every failed attempt.
SleepsAfter_Always(attempt) == TRUE

\* line 23: if attempt < max_attempts - 1 (attempt counted from 0)
SleepsAfter(attempt) == attempt < max_attempts - 1

\* rd.file is the output's text, rd.attempt the loop variable, rd.slept the
\* time.sleep calls made; pc "off": not called.
RdInit == [pc |-> "off", file |-> NoFile, attempt |-> 0,
           backoff |-> backoff_start, slept |-> <<>>, text |-> NoText,
           res |-> <<FALSE, FALSE, FALSE>>]

\* One pass of the for loop: read_text returns (ok) and the text is
\* returned, or it raises PermissionError/OSError and the loop sleeps and
\* doubles the backoff unless this was the last attempt; after the last
\* attempt None is returned.
R_Attempt(ok) ==
    /\ rd.pc = "read" /\ rd.attempt < max_attempts
    /\ rd' = IF ok THEN [rd EXCEPT !.pc = "returned", !.text = rd.file]
             ELSE LET sleeps == SleepsAfter(rd.attempt) IN
                  [rd EXCEPT
                     !.slept = IF sleeps THEN Append(@, rd.backoff) ELSE @,
                     !.backoff = IF sleeps THEN 2 * @ ELSE @,
                     !.attempt = @ + 1,
                     !.pc = IF rd.attempt + 1 < max_attempts THEN "read"
                            ELSE "returned",
                     !.text = NoText]
    /\ UNCHANGED <<fs, nt, dk, ls>>
    /\ UNCHANGED <<disk, job_queue, running, run, fatal, max_retries, wk, wt,
                   mt, nextId, crashes, dropped, hist>>

\* safe_parse_orca_output, lines 55-70: no text is fatal, a text is
\* classified.
R_Parse ==
    /\ rd.pc = "returned"
    /\ rd' = [rd EXCEPT !.pc = "parsed",
                        !.res = IF rd.text = NoText THEN <<FALSE, FALSE, TRUE>>
                                ELSE safe_parse_orca_output(rd.text)]
    /\ UNCHANGED <<fs, nt, dk, ls>>
    /\ UNCHANGED <<disk, job_queue, running, run, fatal, max_retries, wk, wt,
                   mt, nextId, crashes, dropped, hist>>

\* ------------------- resolve_primary_output (orca_output_utils.py:14-32)
\* A file name is the sequence of its parts: m.out is <<"m", ".out">> and
\* m_orca.log is <<"m", "_orca", ".log">>.  A directory is the sequence of
\* the names of its files in the order the operating system lists them.
MaxFiles == 3
Stems == {"b", "m"}
FileNames ==
    UNION {{<<b, ".out">>, <<b, "_orca", ".log">>, <<b, ".log">>} :
             b \in {"a", "b", "m"}} \cup {<<"a", ".inp">>}
Listings ==
    UNION {{d \in [1..n -> FileNames] :
              \A i, k \in 1..n : d[i] = d[k] => i = k} : n \in 0..MaxFiles}
NoPath == <<>>

\* Path.glob('*' + pattern): the files of D whose name ends with the
\* pattern, in the order of the directory listing.
glob(D, pattern) ==
    SelectSeq(D, LAMBDA n :
        /\ Len(n) >= Len(pattern)
        /\ SubSeq(n, Len(n) - Len(pattern) + 1, Len(n)) = pattern)

\* lines 22-32: the first candidate that exists, else the first file of
\* the fallback scan, else None.
resolve_primary_output_in(D, stem) ==
    LET candidates == << <<stem, ".out">>, <<stem, "_orca", ".log">>,
                         <<stem, ".log">> >>
        found == SelectSeq(candidates,
                           LAMBDA p : \E i \in 1..Len(D) : D[i] = p)
        outs == glob(D, <<".out">>) \o glob(D, <<"_orca", ".log">>)
                \o glob(D, <<".log">>)
    IN  IF found # <<>> THEN found[1]
        ELSE IF outs # <<>> THEN outs[1] ELSE NoPath

\* ls.dir is the directory, ls.stem the stem, ls.ret the path returned;
\* pc "off": not called.
LsInit == [pc |-> "off", dir |-> <<>>, stem |-> "m", ret |-> NoPath]

P_Resolve ==
    /\ ls.pc = "call"
    /\ ls' = [ls EXCEPT !.pc = "returned",
                        !.ret = resolve_primary_output_in(ls.dir, ls.stem)]
    /\ UNCHANGED <<fs, nt, dk, rd>>
    /\ UNCHANGED <<disk, job_queue, running, run, fatal, max_retries, wk, wt,
                   mt, nextId, crashes, dropped, hist>>

\* ------------------------------------------------ decks and their keywords
\* A configured string: a word, the case it is written in, and whether
\* blanks surround it.  A literal piece of an f-string is [lit |-> text].
Cases == {"lower", "upper", "cap"}
Str(word, case, pad) == [word |-> word, case |-> case, pad |-> pad]
Lit(text) == [lit |-> text]
strip(t) == [t EXCEPT !.pad = FALSE]
lower(t) == [t EXCEPT !.case = "lower"]
upper(t) == [t EXCEPT !.case = "upper"]
capitalize(t) == [t EXCEPT !.case = "cap"]

\* ['CPCM','SMD','COSMO']
SolventModels == {Str(m, "upper", FALSE) : m \in {"cpcm", "smd", "cosmo"}}

\* The settings drawn: solvent_model, solvent_name and extra_keywords.
Configs ==
    [solvent_model : {Str(m, c, p) : m \in {"none", "cpcm", "smd", "cosmo", "pcm"},
                                     c \in Cases, p \in BOOLEAN},
     solvent_name : {Str(m, c, p) : m \in {"chloroform", "water"},
                                    c \in Cases, p \in BOOLEAN},
     extra_keywords : {<<>>, <<Lit("TightSCF")>>}]

NoDeck == [task |-> "", solvent |-> <<>>, extra |-> <<>>]
DkInit == [cfg |-> [solvent_model |-> Str("none", "lower", FALSE),
                    solvent_name |-> Str("water", "lower", FALSE),
                    extra_keywords |-> <<>>],
           opt |-> NoDeck, freq |-> NoDeck]

\* _make_freq_inp, lines 380-384: solvent_kw
freq_solvent_kw(cfg) ==
    LET solvent_model == lower(strip(cfg.solvent_model))
        solvent_name == strip(cfg.solvent_name)
    IN  IF solvent_model # Str("none", "lower", FALSE)
           /\ upper(solvent_model) \in SolventModels
        THEN <<upper(solvent_model), Lit("("), Lit("Solvent="),
               capitalize(solvent_name), Lit(")")>>
        ELSE <<>>

\* _generate_inp_from_xyz, lines 85-92: solvent_kw
opt_solvent_kw(cfg) ==
    LET solvent_model == lower(strip(cfg.solvent_model))
        solvent_name == strip(cfg.solvent_name)
    IN  IF solvent_model # Str("none", "lower", FALSE)
           /\ upper(solvent_model) \in SolventModels
        THEN <<upper(solvent_model), Lit("("), capitalize(solvent_name), Lit(")")>>
        ELSE <<>>

\* XYZHandler._generate_inp_from_xyz: the first line of the optimize deck.
D_GenerateInp ==
    /\ dk.opt = NoDeck
    /\ dk' = [dk EXCEPT !.opt = [task |-> "Opt",
                                 solvent |-> opt_solvent_kw(dk.cfg),
                                 extra |-> dk.cfg.extra_keywords]]
    /\ UNCHANGED <<fs, nt, rd, ls>>
    /\ UNCHANGED <<disk, job_queue, running, run, fatal, max_retries, wk, wt,
                   mt, nextId, crashes, dropped, hist>>

\* JobManager._make_freq_inp: the first line of the frequency deck.
D_MakeFreqInp ==
    /\ dk.freq = NoDeck
    /\ dk' = [dk EXCEPT !.freq = [task |-> "Freq",
                                  solvent |-> freq_solvent_kw(dk.cfg),
                                  extra |-> dk.cfg.extra_keywords]]
    /\ UNCHANGED <<fs, nt, rd, ls>>
    /\ UNCHANGED <<disk, job_queue, running, run, fatal, max_retries, wk, wt,
                   mt, nextId, crashes, dropped, hist>>

\* ------------------------------------------ NotificationSystem (notifier.py)
\* float('inf'), larger than every count.
Inf == 1000000
\* time.time() when the monitor thread starts, in seconds.
Epoch == 100
\* time.sleep(5)
PollSleep == 5
NoValue == -1

\* NotificationSystem.__init__; pc "off": start_monitoring was not called.
\* prev, alerted and sent are history: the value the last poll that
\* returned one has read, the time of the last alert, and whether the last
\* poll has sent one.
NtInit == [pc |-> "off", threshold |-> 5, debounce |-> 3,
           last_task_count |-> Inf, last_notification |-> 0,
           now |-> Epoch, polls |-> 0,
           prev |-> NoValue, alerted |-> NoValue, sent |-> FALSE]

\* _monitor_loop, one pass of the loop in which the count is read: the
\* alert is sent when the three conditions hold, last_task_count is
\* updated, the thread sleeps.
N_Poll ==
    /\ nt.pc = "poll" /\ nt.polls < MaxPolls
    /\ LET current == get_weighted_task_count
           alert == /\ nt.last_task_count > nt.threshold
                    /\ current <= nt.threshold
                    /\ nt.now - nt.last_notification > nt.debounce
       IN  nt' = [nt EXCEPT !.last_notification = IF alert THEN nt.now ELSE @,
                            !.last_task_count = current,
                            !.now = @ + PollSleep, !.polls = @ + 1,
                            !.prev = current,
                            !.alerted = IF alert THEN nt.now ELSE @,
                            !.sent = alert]
    /\ UNCHANGED <<fs, dk, rd, ls>>
    /\ UNCHANGED <<disk, job_queue, running, run, fatal, max_retries, wk, wt,
                   mt, nextId, crashes, dropped, hist>>

\* _monitor_loop, a pass in which get_weighted_task_count raises (the deque
\* changes under list()): the error is printed, the thread sleeps, the
\* fields stay.
N_PollRaise ==
    /\ nt.pc = "poll" /\ nt.polls < MaxPolls
    /\ nt' = [nt EXCEPT !.now = @ + PollSleep, !.polls = @ + 1, !.sent = FALSE]
    /\ UNCHANGED <<fs, dk, rd, ls>>
    /\ UNCHANGED <<disk, job_queue, running, run, fatal, max_retries, wk, wt,
                   mt, nextId, crashes, dropped, hist>>

\* A worker's locals: the dequeued job, its work_dir, the executor's result,
\* the StateStore snapshot of the mutation in progress, and a log of what
\* this step has done (send_error calls, append_completed calls, add_job
\* calls for a retry, chained jobs, and the archive folder it created).
NoJob == ORCAJob(<<>>, OPT)
NoRes == <<FALSE, FALSE, FALSE>>
NoLog == [sent |-> 0, app |-> 0, resub |-> 0, chained |-> 0, arch |-> <<>>,
          aux |-> FALSE, raised |-> FALSE]
WkInit(pc) == [pc |-> pc, job |-> NoJob, wd |-> NoDir, res |-> NoRes,
               arg |-> NoRes, snap |-> <<>>, new |-> NoJob, log |-> NoLog,
               target |-> NoDir]
WtInit == [pc |-> "idle", job |-> NoJob, snap |-> <<>>]
MtInit == [pc |-> "init", list |-> <<>>, i |-> 0, decks |-> {}, job |-> NoJob,
           res |-> NoRes, found |-> FALSE, snap |-> <<>>, par |-> 0]

\* History variables: execs[id] counts the solver invocations of job id,
\* final the job ids a worker or recovery has given a final outcome,
\* allok whether every solver run so far terminated normally with a
\* coordinate block, early whether a deck arrived while the pipeline was
\* still starting, instep whether every crash so far hit a worker inside its
\* step, dirty whether anything but _recover_on_start has changed the disk
\* or the FIFO since the process started, rec the FIFO as the last two
\* undisturbed runs of _recover_on_start left it (kept only while nothing
\* but a restart happened in between).
NoFifo == << [id |-> -1, inp |-> <<>>] >>
HistInit == [execs |-> [i \in 1..MaxId |-> 0], final |-> {}, allok |-> TRUE,
             early |-> FALSE, instep |-> TRUE, dirty |-> FALSE,
             rec |-> <<NoFifo, NoFifo>>, app |-> <<>>, by |-> <<>>]

\* ------------------------------------------- self.job_queue (queue.Queue)
\* The threads that call add_job or put: the main thread (recovery and the
\* orphan scan), the watchdog observer thread, and the workers ORCA-n by
\* their number.
MainThread == 0
ObserverThread == -1

\* put at the head of the queue instead of its end.
put_Front(q, item) == <<item>> \o q

\* queue.Queue.put: the item goes to the end of the FIFO.
put(q, item) == Append(q, item)

\* hist.by runs along job_queue: for every job in the FIFO the thread that
\* put it and a ticket larger than that of every job that was in the FIFO
\* when it was put.
Ticket(h, thread) ==
    [by |-> thread,
     n |-> IF h.by = <<>> THEN 1
           ELSE 1 + (CHOOSE m \in {h.by[k].n : k \in 1..Len(h.by)} :
                         \A k \in 1..Len(h.by) : h.by[k].n <= m)]
Submitted(h, thread) == [h EXCEPT !.by = put(@, Ticket(h, thread))]

\* ------------------------------------ _atomic_write on one file (14-19)
\* A file: the list last written into it, the length of its bytes in
\* records (-1: no byte at all), and whether the bytes are the JSON text of
\* that list.  A truncated file and a text with the tail of a longer, older
\* text are not.
EmptyFile == [data |-> <<>>, len |-> -1, whole |-> FALSE]
WholeFile(q) == [data |-> q, len |-> Len(q), whole |-> TRUE]

\* json.dump and close through an open descriptor: the text replaces the
\* head of whatever the inode holds.
Overwrite(old, q) ==
    IF old.len > Len(q) THEN [data |-> q, len |-> old.len, whole |-> FALSE]
    ELSE WholeFile(q)

\* What a caller of json.loads sees of an exception nobody catches.
Raises == << [raises |-> TRUE] >>

\* _read_json without its try/except.
read_json_NoExcept(file) == IF file.whole THEN file.data ELSE Raises

\* _read_json: the parsed list, or the default [] when parsing raises.
read_json(file) == IF file.whole THEN file.data ELSE <<>>

Writers == 1..MaxWriters
WriterIdle == [pc |-> "idle", data |-> <<>>, fd |-> 0]

\* fs.path: the inode <name>.json names; fs.tmp: the inode <name>.json.tmp
\* names (0: none); fs.ino: the inodes; fs.th: the threads inside a mutation.
FsInit(q) ==
    [path |-> 1, tmp |-> 0,
     ino |-> [i \in 1..MaxIno |-> IF i = 1 THEN WholeFile(q) ELSE EmptyFile],
     th |-> [t \in Writers |-> WriterIdle]]

\* The inodes a name or an open descriptor refers to; the others are freed.
Referenced(f) == {f.path, f.tmp} \cup {f.th[t].fd : t \in Writers}
Collect(f) ==
    [f EXCEPT !.ino = [i \in 1..MaxIno |->
                          IF i \in Referenced(f) THEN f.ino[i] ELSE EmptyFile]]

\* fs.path of a list file that does not exist.
Absent == 0

\* The list load_queue() returns: the default when path.exists() is false.
Loaded == IF fs.path = Absent THEN <<>> ELSE read_json(fs.ino[fs.path])

\* StateStore.enqueue / dequeue up to the call of _atomic_write: the list is
\* loaded and changed (an enqueue of a known job_id writes nothing).
S_Load(t, id, add) ==
    /\ fs.th[t].pc = "idle"
    /\ LET q == IF add THEN enqueue(Loaded, [id |-> id])
                       ELSE dequeue(Loaded, id)
       IN  /\ add => ~HasId(Loaded, id)
           /\ fs' = [fs EXCEPT !.th[t] = [pc |-> "call", data |-> q, fd |-> 0]]
    /\ UNCHANGED engine

\* _atomic_write, line 17: open(tmp, 'w') creates the file or truncates it.
S_Open(t) ==
    /\ fs.th[t].pc = "call"
    /\ \E i \in 1..MaxIno :
          /\ IF fs.tmp # 0 THEN i = fs.tmp
             ELSE /\ i \notin Referenced(fs)
                  /\ \A k \in 1..(i - 1) : k \in Referenced(fs)
          /\ fs' = [fs EXCEPT !.tmp = i, !.ino[i] = EmptyFile,
                              !.th[t].pc = "open", !.th[t].fd = i]
    /\ UNCHANGED engine

\* _atomic_write, line 18 and the end of the with block: the text is
\* written and the descriptor closed.
S_Write(t) ==
    /\ fs.th[t].pc = "open"
    /\ LET i == fs.th[t].fd IN
       fs' = Collect([fs EXCEPT !.ino[i] = Overwrite(@, fs.th[t].data),
                                !.th[t].pc = "closed", !.th[t].fd = 0])
    /\ UNCHANGED engine

\* _atomic_write, line 19: os.replace(tmp, path) renames whatever inode the
\* tmp name refers to; without one it raises and the mutation is abandoned.
S_Replace(t) ==
    /\ fs.th[t].pc = "closed"
    /\ fs' = Collect([fs EXCEPT
                 !.path = IF fs.tmp # 0 THEN fs.tmp ELSE @,
                 !.tmp = 0,
                 !.th[t] = WriterIdle])
    /\ UNCHANGED engine

\* The process dies inside mutations: the threads and their descriptors are
\* gone, the directory stays as it is.
S_Crash ==
    /\ \E t \in Writers : fs.th[t].pc # "idle"
    /\ fs' = Collect([fs EXCEPT !.th = [t \in Writers |-> WriterIdle]])
    /\ UNCHANGED engine

InitWith(pool) ==
    /\ sq = <<>> /\ sr = <<>> /\ sc = <<>>
    /\ waiting = {} /\ working = {} /\ products = <<>>
    /\ job_queue = <<>> /\ running = {}
    /\ run = FALSE /\ fatal = FALSE
    /\ max_retries \in 0..MaxRetriesCfg
    /\ wk = [w \in pool |-> WkInit("unborn")]
    /\ wt = WtInit
    /\ mt = [MtInit EXCEPT !.par = Cardinality(pool)]
    /\ nextId = 1 /\ crashes = 0 /\ dropped = {}
    /\ nt = NtInit /\ dk = DkInit /\ rd = RdInit /\ ls = LsInit
    /\ hist = HistInit

\* The pipeline with max_parallel workers.
InitRun == InitWith(1..max_parallel) /\ fs = FsInit(<<>>)
\* The pipeline of the runs that crash and restart.
Init == InitWith(1..MaxWorkersCrash) /\ fs = FsInit(<<>>)

\* A step other than recovery's that changes the disk or the FIFO.
Touch(h) == [h EXCEPT !.rec = <<NoFifo, NoFifo>>, !.dirty = TRUE]

\* ------------------------------------------------- watcher (main.py:28-53)
\* The observer runs from ORCAPipeline.start until ORCAPipeline.stop.
ObserverUp == mt.pc \notin {"init", "stopped"}

\* XYZHandler.on_created for <m>.xyz: the deck is generated and moved to a
\* unique name in waiting/, the job is built on waiting/<m>.inp, and add_job
\* draws the job id and loads the queue (StateStore.enqueue, first half).
on_created(m) ==
    /\ ObserverUp /\ wt.pc = "idle"
    /\ nextId <= MaxId
    /\ waiting' = waiting \cup {unique_path(<<m>>, waiting)}
    /\ wt' = [pc |-> "enqW", snap |-> sq,
              job |-> AssignId(ORCAJob(<<m>>, OPT), nextId)]
    /\ nextId' = nextId + 1
    /\ hist' = [Touch(hist) EXCEPT !.early = @ \/ mt.pc # "host"]
    /\ UNCHANGED <<fs, nt, dk, rd, ls>>
    /\ UNCHANGED <<sq, sr, sc, working, products, job_queue, running, run,
                   fatal, max_retries, wk, mt, crashes>>

\* <m>.xyz is dropped into the input directory for the first time.
Watch_Create(m) ==
    /\ m \notin dropped
    /\ dropped' = dropped \cup {m}
    /\ on_created(m)

\* A file of the name <m>.xyz is dropped again (the first one has been moved
\* to waiting/).
Watch_CreateAgain(m) ==
    /\ m \in dropped
    /\ UNCHANGED dropped
    /\ on_created(m)

\* StateStore.enqueue, second half: the queue file is replaced.
Watch_EnqWrite ==
    /\ wt.pc = "enqW"
    /\ sq' = enqueue(wt.snap, to_dict(wt.job))
    /\ wt' = [wt EXCEPT !.pc = "put", !.snap = <<>>]
    /\ hist' = Touch(hist)
    /\ UNCHANGED <<fs, nt, dk, rd, ls>>
    /\ UNCHANGED <<sr, sc, waiting, working, products, job_queue, running,
                   run, fatal, max_retries, wk, mt, nextId, crashes, dropped>>

\* add_job: self.job_queue.put(job)
Watch_Put ==
    /\ wt.pc = "put"
    /\ job_queue' = put(job_queue, wt.job)
    /\ wt' = WtInit
    /\ hist' = Submitted(Touch(hist), ObserverThread)
    /\ UNCHANGED <<fs, nt, dk, rd, ls>>
    /\ UNCHANGED <<disk, running, run, fatal, max_retries, wk, mt, nextId,
                   crashes, dropped>>

Watcher == (\E m \in {MolOf(i) : i \in 1..MaxMol} : Watch_Create(m))
           \/ Watch_EnqWrite \/ Watch_Put

WatcherPar == (\E m \in {MolOf(i) : i \in 1..MaxMolPar} : Watch_Create(m))
              \/ Watch_EnqWrite \/ Watch_Put

\* ---------------------------------------------------- directories on disk
WorkDirs == {d.name : d \in working}
WorkDirExists(name) == name \in WorkDirs
OutputIn(name) == (CHOOSE d \in working : d.name = name).out
\* working/ after .lock was written into (TRUE) or unlinked from (FALSE)
\* the work_dir.
SetLock(name, lock) ==
    {IF d.name = name THEN [d EXCEPT !.lock = lock] ELSE d : d \in working}

\* The archive directories of products/<mol>/, oldest mtime first.
Subdirs(mol) == SelectSeq(products, LAMBDA d : d.mol = mol)

\* resolve_primary_output(dir, stem): a directory of the model holds at most
\* one textual output, which every candidate rule of the resolver finds.
resolve_primary_output(out) == out

\* _recover_on_start, lines 407-418: the output found for running record j,
\* in its work_dir if that exists and holds one, else in the most recently
\* modified directory of products/<molecule>/.
RecoverOutput(j) ==
    LET inwd == IF j.wd # NoDir /\ WorkDirExists(j.wd)
                THEN resolve_primary_output(OutputIn(j.wd)) ELSE NoFile
        subdirs == Subdirs(MoleculeName(j.inp))
    IN  IF inwd.exists THEN inwd
        ELSE IF Len(subdirs) > 0
             THEN resolve_primary_output(subdirs[Len(subdirs)].out)
             ELSE NoFile

FifoView(q) == [i \in 1..Len(q) |-> [id |-> q[i].id, inp |-> q[i].inp]]

\* -------------------------------------- main thread (main.py, job.py:199)
\* ORCAPipeline.start: the observer starts, then JobManager.start sets _run.
M_Start ==
    /\ mt.pc = "init"
    /\ run' = TRUE
    /\ mt' = [mt EXCEPT !.pc = "rq"]
    /\ UNCHANGED <<fs, nt, dk, rd, ls>>
    /\ UNCHANGED <<disk, job_queue, running, fatal, max_retries, wk, wt,
                   nextId, crashes, dropped, hist>>

\* _recover_on_start, lines 400-403: every queued record goes to the FIFO.
M_RecQueued ==
    /\ mt.pc = "rq"
    /\ job_queue' = job_queue \o FromDicts(sq)
    /\ mt' = [mt EXCEPT !.pc = "rload"]
    /\ hist' = [hist EXCEPT !.by =
                   @ \o [k \in 1..Len(sq) |->
                            [by |-> MainThread,
                             n |-> Ticket(hist, MainThread).n + k - 1]]]
    /\ UNCHANGED <<fs, nt, dk, rd, ls>>
    /\ UNCHANGED <<disk, running, run, fatal, max_retries, wk, wt, nextId,
                   crashes, dropped>>

\* The position after the running record mt.i has been dealt with.
RecAdvance(m) ==
    IF m.i < Len(m.list)
    THEN [m EXCEPT !.pc = "rjob", !.i = m.i + 1, !.snap = <<>>]
    ELSE [m EXCEPT !.pc = "glob", !.i = 0, !.list = <<>>, !.snap = <<>>,
                   !.job = NoJob, !.res = NoRes, !.found = FALSE]

\* line 405: running = load_running()
M_RecLoadRunning ==
    /\ mt.pc = "rload"
    /\ mt' = RecAdvance([mt EXCEPT !.list = FromDicts(sr), !.i = 0])
    /\ UNCHANGED <<fs, nt, dk, rd, ls>>
    /\ UNCHANGED <<disk, job_queue, running, run, fatal, max_retries, wk, wt,
                   nextId, crashes, dropped, hist>>

\* lines 406-421 for record j: locate and classify its output.  With an
\* output the next call is remove_running (its load is taken here), without
\* one it is enqueue.
M_RecClassify ==
    /\ mt.pc = "rjob"
    /\ LET j == mt.list[mt.i]
           out == RecoverOutput(j)
       IN  mt' = IF out.exists
                 THEN [mt EXCEPT !.pc = "rrmW", !.job = j, !.found = TRUE,
                                 !.res = safe_parse_orca_output(out),
                                 !.snap = sr]
                 ELSE [mt EXCEPT !.pc = "renqL", !.job = j, !.found = FALSE,
                                 !.res = NoRes]
    /\ UNCHANGED <<fs, nt, dk, rd, ls>>
    /\ UNCHANGED <<disk, job_queue, running, run, fatal, max_retries, wk, wt,
                   nextId, crashes, dropped, hist>>

\* Recovery completing only the records whose output is a success.
RecCompletes_SuccessOnly(res) == res[1]

\* lines 423-428: if success / elif is_fatal, the record goes to completed.
RecCompletes(res) == res[1] \/ res[3]

\* lines 422 and 438: state.remove_running(j.job_id), the write.  After it,
\* with an output: append_completed for success and fatal (lines 423-428,
\* its load taken here), else the re-enqueue of lines 430-432.
M_RecRmWrite ==
    /\ mt.pc = "rrmW"
    /\ sr' = remove_running(mt.snap, mt.job.id)
    /\ mt' = IF ~mt.found THEN RecAdvance(mt)
             ELSE IF RecCompletes(mt.res)
                  THEN [mt EXCEPT !.pc = "rappW", !.snap = sc]
                  ELSE [mt EXCEPT !.pc = "renqL", !.snap = <<>>]
    /\ UNCHANGED <<fs, nt, dk, rd, ls>>
    /\ UNCHANGED <<sq, sc, waiting, working, products, job_queue, running, run,
                   fatal, max_retries, wk, wt, nextId, crashes, dropped, hist>>

\* lines 424 and 427: state.append_completed(j.to_dict()), the write.
M_RecAppWrite ==
    /\ mt.pc = "rappW"
    /\ sc' = append_completed(mt.snap, to_dict(mt.job))
    /\ hist' = [hist EXCEPT !.final = @ \cup {mt.job.id}]
    /\ mt' = RecAdvance(mt)
    /\ UNCHANGED <<fs, nt, dk, rd, ls>>
    /\ UNCHANGED <<sq, sr, waiting, working, products, job_queue, running, run,
                   fatal, max_retries, wk, wt, nextId, crashes, dropped>>

\* Requeued with the retry count reset as well.
Requeued_RetriesReset(j) == [j EXCEPT !.status = "waiting", !.retries = 0]

\* lines 430 and 435: j.status = JobStatus.WAITING
Requeued(j) == [j EXCEPT !.status = "waiting"]

\* lines 430-431 and 435-436: j.status = WAITING; state.enqueue, the load.
M_RecEnqLoad ==
    /\ mt.pc = "renqL"
    /\ mt' = [mt EXCEPT !.pc = "renqW", !.snap = sq,
                        !.job = Requeued(mt.job)]
    /\ UNCHANGED <<fs, nt, dk, rd, ls>>
    /\ UNCHANGED <<disk, job_queue, running, run, fatal, max_retries, wk, wt,
                   nextId, crashes, dropped, hist>>

\* state.enqueue(j.to_dict()), the write.
M_RecEnqWrite ==
    /\ mt.pc = "renqW"
    /\ sq' = enqueue(mt.snap, to_dict(mt.job))
    /\ mt' = [mt EXCEPT !.pc = "rput", !.snap = <<>>]
    /\ UNCHANGED <<fs, nt, dk, rd, ls>>
    /\ UNCHANGED <<sr, sc, waiting, working, products, job_queue, running, run,
                   fatal, max_retries, wk, wt, nextId, crashes, dropped, hist>>

\* lines 432 and 437: self.job_queue.put(j).  Without an output
\* remove_running follows (line 438, its load taken here).
M_RecPut ==
    /\ mt.pc = "rput"
    /\ job_queue' = put(job_queue, mt.job)
    /\ mt' = IF mt.found THEN RecAdvance(mt)
             ELSE [mt EXCEPT !.pc = "rrmW", !.snap = sr]
    /\ hist' = Submitted(hist, MainThread)
    /\ UNCHANGED <<fs, nt, dk, rd, ls>>
    /\ UNCHANGED <<disk, running, run, fatal, max_retries, wk, wt, nextId,
                   crashes, dropped>>

\* line 441: the decks of waiting/ as the glob lists them.
M_Glob ==
    /\ mt.pc = "glob"
    /\ mt' = [mt EXCEPT !.pc = "orphan", !.decks = waiting]
    /\ UNCHANGED <<fs, nt, dk, rd, ls>>
    /\ UNCHANGED <<disk, job_queue, running, run, fatal, max_retries, wk, wt,
                   nextId, crashes, dropped, hist>>

\* lines 442-449 for deck inp: the kind from the stem, unique_path and the
\* rename, the job, and add_job up to the load of the queue.
M_Orphan(inp) ==
    /\ mt.pc = "orphan" /\ inp \in mt.decks
    /\ nextId <= MaxId
    /\ LET job_type == IF inp[Len(inp)] = "freq" THEN FREQ ELSE OPT
           unique_inp == unique_path(inp, waiting)
       IN  /\ waiting' = IF unique_inp # inp
                         THEN (waiting \ {inp}) \cup {unique_inp} ELSE waiting
           /\ mt' = [mt EXCEPT !.pc = "oenqW", !.decks = @ \ {inp},
                               !.snap = sq,
                               !.job = AssignId(ORCAJob(unique_inp, job_type),
                                                nextId)]
    /\ nextId' = nextId + 1
    /\ UNCHANGED <<fs, nt, dk, rd, ls>>
    /\ UNCHANGED <<sq, sr, sc, working, products, job_queue, running, run,
                   fatal, max_retries, wk, wt, crashes, dropped, hist>>

M_OrphanEnqWrite ==
    /\ mt.pc = "oenqW"
    /\ sq' = enqueue(mt.snap, to_dict(mt.job))
    /\ mt' = [mt EXCEPT !.pc = "oput", !.snap = <<>>]
    /\ UNCHANGED <<fs, nt, dk, rd, ls>>
    /\ UNCHANGED <<sr, sc, waiting, working, products, job_queue, running, run,
                   fatal, max_retries, wk, wt, nextId, crashes, dropped, hist>>

M_OrphanPut ==
    /\ mt.pc = "oput"
    /\ job_queue' = put(job_queue, mt.job)
    /\ mt' = [mt EXCEPT !.pc = "orphan", !.job = NoJob]
    /\ hist' = Submitted(hist, MainThread)
    /\ UNCHANGED <<fs, nt, dk, rd, ls>>
    /\ UNCHANGED <<disk, running, run, fatal, max_retries, wk, wt, nextId,
                   crashes, dropped>>

\* One thread more than configured.
ThreadNames_OneMore(n) == 1..(n + 1)

\* line 202: for i in range(self.max_parallel), the threads ORCA-1..ORCA-n.
ThreadNames(n) == 1..n

\* JobManager.start, lines 202-205: recovery has returned, the worker
\* threads start. mt.par is self.max_parallel (line 177).
M_Spawn ==
    /\ mt.pc = "orphan" /\ mt.decks = {}
    /\ wk' = [w \in Workers |-> IF w \in ThreadNames(mt.par)
                                  THEN WkInit("loop") ELSE wk[w]]
    /\ mt' = [mt EXCEPT !.pc = "host"]
    /\ hist' = [hist EXCEPT !.rec = IF hist.dirty THEN <<NoFifo, NoFifo>>
                                    ELSE <<hist.rec[2], FifoView(job_queue)>>]
    /\ UNCHANGED <<fs, nt, dk, rd, ls>>
    /\ UNCHANGED <<disk, job_queue, running, run, fatal, max_retries, wt,
                   nextId, crashes, dropped>>

\* The flag never reported.
has_fatal_error_Never == FALSE

\* JobManager.has_fatal_error (lines 211-212)
has_fatal_error == fatal

\* The host loop (main.py:144-149) sees has_fatal_error() and calls stop().
M_HostFatal ==
    /\ mt.pc = "host"
    /\ has_fatal_error
    /\ run' = FALSE
    /\ mt' = [mt EXCEPT !.pc = "stopped"]
    /\ UNCHANGED <<fs, nt, dk, rd, ls>>
    /\ UNCHANGED <<disk, job_queue, running, fatal, max_retries, wk, wt,
                   nextId, crashes, dropped, hist>>

\* The host loop (main.py:151-153) calls stop() on a KeyboardInterrupt,
\* which can arrive at any time.
M_Stop ==
    /\ mt.pc = "host"
    /\ run' = FALSE
    /\ mt' = [mt EXCEPT !.pc = "stopped"]
    /\ UNCHANGED <<fs, nt, dk, rd, ls>>
    /\ UNCHANGED <<disk, job_queue, running, fatal, max_retries, wk, wt,
                   nextId, crashes, dropped, hist>>

\* Worker w has taken a job off the FIFO and not finished its step.
InStep(w) == wk[w].pc \notin {"unborn", "loop", "get", "exited"}

\* The process dies (kill, power loss, or the exit of the main thread with
\* its daemon workers) and a new one is constructed: the memory is lost, the
\* disk stays.
Crash ==
    /\ mt.pc # "init" /\ crashes < MaxCrash
    /\ crashes' = crashes + 1
    /\ job_queue' = <<>> /\ running' = {}
    /\ run' = FALSE /\ fatal' = FALSE
    /\ wk' = [w \in Workers |-> WkInit("unborn")]
    /\ wt' = WtInit /\ mt' = [MtInit EXCEPT !.par = mt.par]
    /\ hist' = [hist EXCEPT !.instep = @ /\ \E w \in Workers : InStep(w),
                            !.dirty = FALSE, !.by = <<>>]
    /\ UNCHANGED <<fs, nt, dk, rd, ls>> /\ UNCHANGED <<disk, max_retries, nextId, dropped>>

Main == M_Start \/ M_RecQueued \/ M_RecLoadRunning \/ M_RecClassify
        \/ M_RecRmWrite \/ M_RecAppWrite \/ M_RecEnqLoad \/ M_RecEnqWrite
        \/ M_RecPut \/ M_Glob \/ (\E inp \in mt.decks : M_Orphan(inp))
        \/ M_OrphanEnqWrite \/ M_OrphanPut \/ M_Spawn \/ M_HostFatal \/ M_Stop

\* ------------------------------------------- worker (job.py:286-350)
\* A worker's record with some locals replaced.
Wk(w, r) == [wk EXCEPT ![w] = r]

\* line 287: while self._run and not self._fatal_error_occurred
W_Loop(w) ==
    /\ wk[w].pc = "loop"
    /\ wk' = Wk(w, [wk[w] EXCEPT !.pc = IF run /\ ~fatal THEN "get"
                                                         ELSE "exited"])
    /\ UNCHANGED <<fs, nt, dk, rd, ls>>
    /\ UNCHANGED <<disk, job_queue, running, run, fatal, max_retries, wt, mt,
                   nextId, crashes, dropped, hist>>

\* line 289: job = self.job_queue.get(timeout=1.0) returns a job.
W_Get(w) ==
    /\ wk[w].pc = "get" /\ job_queue # <<>>
    /\ job_queue' = Tail(job_queue)
    /\ wk' = Wk(w, [WkInit("got") EXCEPT !.job = Head(job_queue)])
    /\ hist' = [Touch(hist) EXCEPT !.by = Tail(@)]
    /\ UNCHANGED <<fs, nt, dk, rd, ls>>
    /\ UNCHANGED <<disk, running, run, fatal, max_retries, wt, mt, nextId,
                   crashes, dropped>>

\* lines 347-348: the get times out on the empty queue, the loop continues.
W_Timeout(w) ==
    /\ wk[w].pc = "get" /\ job_queue = <<>>
    /\ wk' = Wk(w, [wk[w] EXCEPT !.pc = "loop"])
    /\ UNCHANGED <<fs, nt, dk, rd, ls>>
    /\ UNCHANGED <<disk, job_queue, running, run, fatal, max_retries, wt, mt,
                   nextId, crashes, dropped, hist>>

\* line 290: work_dir = unique_path(working/<stem>_<kind>_<time>), the
\* first name that does not exist when it is looked up.
W_MintDir(w) ==
    /\ wk[w].pc = "got"
    /\ LET job == wk[w].job
           work_dir == unique_path(job.inp \o <<job.kind, "T">>, WorkDirs)
       IN  wk' = Wk(w, [wk[w] EXCEPT !.pc = "mkdir", !.wd = work_dir])
    /\ UNCHANGED <<fs, nt, dk, rd, ls>>
    /\ UNCHANGED <<disk, job_queue, running, run, fatal, max_retries, wt, mt,
                   nextId, crashes, dropped, hist>>

\* self.running[work_dir.name] = job: the entry of that key is replaced.
SetRunning(map, work_dir, job) ==
    {r \in map : r.wd # work_dir}
        \cup {[wd |-> work_dir, id |-> job.id, kind |-> job.kind]}

\* lines 291-295: work_dir.mkdir(parents=True, exist_ok=True), the job is
\* registered under the name of the work_dir, and
\* StateStore.dequeue(job.job_id) loads the queue.
W_Register(w) ==
    /\ wk[w].pc = "mkdir"
    /\ working' = IF WorkDirExists(wk[w].wd) THEN working
                  ELSE working \cup {[name |-> wk[w].wd, out |-> NoFile,
                                       lock |-> FALSE]}
    /\ running' = SetRunning(running, wk[w].wd, wk[w].job)
    /\ wk' = Wk(w, [wk[w] EXCEPT !.pc = "deqW", !.snap = sq])
    /\ UNCHANGED <<fs, nt, dk, rd, ls>>
    /\ UNCHANGED <<sq, sr, sc, waiting, products, job_queue, run, fatal,
                   max_retries, wt, mt, nextId, crashes, dropped, hist>>

\* line 295: StateStore.dequeue, the write.
W_DeqWrite(w) ==
    /\ wk[w].pc = "deqW"
    /\ sq' = dequeue(wk[w].snap, wk[w].job.id)
    /\ wk' = Wk(w, [wk[w] EXCEPT !.pc = "addrL", !.snap = <<>>])
    /\ UNCHANGED <<fs, nt, dk, rd, ls>>
    /\ UNCHANGED <<sr, sc, waiting, working, products, job_queue, running, run,
                   fatal, max_retries, wt, mt, nextId, crashes, dropped, hist>>

\* lines 296-297: rj = job.to_dict() with the work_dir; state.add_running(rj)
W_AddRunLoad(w) ==
    /\ wk[w].pc = "addrL"
    /\ wk' = Wk(w, [wk[w] EXCEPT !.pc = "addrW", !.snap = sr])
    /\ UNCHANGED <<fs, nt, dk, rd, ls>>
    /\ UNCHANGED <<disk, job_queue, running, run, fatal, max_retries, wt, mt,
                   nextId, crashes, dropped, hist>>

\* add_running, the write; then ORCAExecutor.run, lines 81-95: the job takes
\* the work_dir, the .lock is written, the deck is copied and the solver is
\* spawned.
W_AddRunWrite(w) ==
    /\ wk[w].pc = "addrW"
    /\ wk[w].job.inp \in waiting /\ WorkDirExists(wk[w].wd)
    /\ sr' = add_running(wk[w].snap,
                          [to_dict(wk[w].job) EXCEPT !.wd = wk[w].wd])
    /\ wk' = Wk(w, [wk[w] EXCEPT !.pc = "solving", !.snap = <<>>,
                                 !.job.wd = wk[w].wd,
                                 !.job.status = "running"])
    /\ working' = SetLock(wk[w].wd, TRUE)
    /\ hist' = [hist EXCEPT !.execs[wk[w].job.id] = @ + 1]
    /\ UNCHANGED <<fs, nt, dk, rd, ls>>
    /\ UNCHANGED <<sq, sc, waiting, products, job_queue, running, run,
                   fatal, max_retries, wt, mt, nextId, crashes, dropped>>

\* add_running, the write; then ORCAExecutor.run, lines 86 and 88, when the
\* work_dir or the deck no longer exists: write_text or copy2 raises outside
\* the try, and line 349 of _worker logs the exception and loops.  With the
\* work_dir there the .lock was written before copy2 raised.
W_ExecRaise(w) ==
    /\ wk[w].pc = "addrW"
    /\ wk[w].job.inp \notin waiting \/ ~WorkDirExists(wk[w].wd)
    /\ sr' = add_running(wk[w].snap,
                          [to_dict(wk[w].job) EXCEPT !.wd = wk[w].wd])
    /\ working' = SetLock(wk[w].wd, TRUE)
    /\ wk' = Wk(w, WkInit("loop"))
    /\ UNCHANGED <<fs, nt, dk, rd, ls>>
    /\ UNCHANGED <<sq, sc, waiting, products, job_queue, running, run,
                   fatal, max_retries, wt, mt, nextId, crashes, dropped, hist>>

\* The solver exits having written the output out (or none, as when its
\* directory has been removed under it); run classifies it (lines 104-131)
\* and returns; lines 302-304 unregister the job; line 306,
\* StateStore.remove_running, loads the running list.
W_ExecEnd(w, out) ==
    /\ wk[w].pc = "solving"
    /\ LET there == WorkDirExists(wk[w].wd)
           res == RunResult(IF there THEN out ELSE NoFile)
       IN
       /\ working' = IF there
                      THEN {d \in working : d.name # wk[w].wd}
                              \cup {[name |-> wk[w].wd, out |-> out,
                                    lock |-> FALSE]}
                      ELSE working
       /\ wk' = Wk(w, [wk[w] EXCEPT !.pc = "rmW", !.res = res, !.snap = sr,
                          !.job.status = IF res[1] THEN "completed"
                                                   ELSE "error",
                          !.job.err = IF there THEN ErrorMessage(out, @)
                                      ELSE "Execution exception",
                          !.log.raised = ~there])
    /\ running' = {r \in running : r.wd # wk[w].wd}
    /\ hist' = [hist EXCEPT !.allok = @ /\ out = Text({"NORMAL"}, TRUE)]
    /\ UNCHANGED <<fs, nt, dk, rd, ls>>
    /\ UNCHANGED <<sq, sr, sc, waiting, products, job_queue, run, fatal,
                   max_retries, wt, mt, nextId, crashes, dropped>>

\* ORCAExecutor.run, lines 94-101 and 133-138: subprocess.run raises (the
\* executable is missing or may not be run); the except clause sets the
\* status and the message and returns fatal, and the worker goes on as
\* after any run.
W_SpawnRaise(w) ==
    /\ wk[w].pc = "solving"
    /\ wk' = Wk(w, [wk[w] EXCEPT !.pc = "rmW", !.snap = sr,
                                 !.res = <<FALSE, FALSE, TRUE>>,
                                 !.job.status = "error",
                                 !.job.err = "Execution exception",
                                 !.log.raised = TRUE])
    /\ working' = SetLock(wk[w].wd, FALSE)
    /\ running' = {r \in running : r.wd # wk[w].wd}
    /\ UNCHANGED <<fs, nt, dk, rd, ls>>
    /\ UNCHANGED <<sq, sr, sc, waiting, products, job_queue, run,
                   fatal, max_retries, wt, mt, nextId, crashes, dropped, hist>>

\* Branch with the retry comparison off by one (retries <= max_retries).
Branch_RetryInclusive(res, job, maxr) ==
    IF res[3] THEN <<"fatal", <<FALSE, FALSE, TRUE>> >>
    ELSE IF res[1] THEN <<"appL", <<TRUE, FALSE, FALSE>> >>
    ELSE IF res[2] THEN <<"appL", <<FALSE, TRUE, FALSE>> >>
    ELSE IF job.retries <= maxr THEN <<"retry", <<FALSE, FALSE, FALSE>> >>
    ELSE <<"appL", <<FALSE, TRUE, FALSE>> >>

\* Branch with a recoverable result sent down the retry path.
Branch_RecoverableRetried(res, job, maxr) ==
    IF res[3] THEN <<"fatal", <<FALSE, FALSE, TRUE>> >>
    ELSE IF res[1] THEN <<"appL", <<TRUE, FALSE, FALSE>> >>
    ELSE IF res[2] /\ job.retries >= maxr THEN <<"appL", <<FALSE, TRUE, FALSE>> >>
    ELSE IF job.retries < maxr THEN <<"retry", <<FALSE, FALSE, FALSE>> >>
    ELSE <<"appL", <<FALSE, TRUE, FALSE>> >>

\* The branch of lines 308-344 the result selects: the position, and the
\* (success, is_recoverable, is_fatal) the branch hands to _archive.
Branch(res, job, maxr) ==
    IF res[3] THEN <<"fatal", <<FALSE, FALSE, TRUE>> >>
    ELSE IF res[1] THEN <<"appL", <<TRUE, FALSE, FALSE>> >>
    ELSE IF res[2] THEN <<"appL", <<FALSE, TRUE, FALSE>> >>
    ELSE IF job.retries < maxr THEN <<"retry", <<FALSE, FALSE, FALSE>> >>
    ELSE <<"appL", <<FALSE, TRUE, FALSE>> >>

\* line 306: StateStore.remove_running, the write.
W_RmWrite(w) ==
    /\ wk[w].pc = "rmW"
    /\ sr' = remove_running(wk[w].snap, wk[w].job.id)
    /\ LET b == Branch(wk[w].res, wk[w].job, max_retries) IN
       wk' = Wk(w, [wk[w] EXCEPT !.pc = b[1], !.arg = b[2], !.snap = <<>>])
    /\ UNCHANGED <<fs, nt, dk, rd, ls>>
    /\ UNCHANGED <<sq, sc, waiting, working, products, job_queue, running, run,
                   fatal, max_retries, wt, mt, nextId, crashes, dropped, hist>>

\* lines 310-314: the fatal flag is set, send_error is called, and
\* StateStore.append_completed loads the completed list.
W_Fatal(w) ==
    /\ wk[w].pc = "fatal"
    /\ fatal' = TRUE
    /\ wk' = Wk(w, [wk[w] EXCEPT !.pc = "appW", !.log.sent = @ + 1,
                                 !.snap = sc])
    /\ UNCHANGED <<fs, nt, dk, rd, ls>>
    /\ UNCHANGED <<disk, job_queue, running, run, max_retries, wt, mt, nextId,
                   crashes, dropped, hist>>

\* lines 319, 329, 342: self.state.append_completed(job.to_dict()), the load;
\* then the write (also that of line 314).
W_AppLoad(w) ==
    /\ wk[w].pc = "appL"
    /\ wk' = Wk(w, [wk[w] EXCEPT !.pc = "appW", !.snap = sc])
    /\ UNCHANGED <<fs, nt, dk, rd, ls>>
    /\ UNCHANGED <<disk, job_queue, running, run, fatal, max_retries, wt, mt,
                   nextId, crashes, dropped, hist>>

W_AppWrite(w) ==
    /\ wk[w].pc = "appW"
    /\ sc' = append_completed(wk[w].snap, to_dict(wk[w].job))
    /\ wk' = Wk(w, [wk[w] EXCEPT !.pc = "arch", !.snap = <<>>,
                                 !.log.app = @ + 1])
    /\ hist' = [hist EXCEPT !.final = @ \cup {wk[w].job.id}]
    /\ UNCHANGED <<fs, nt, dk, rd, ls>>
    /\ UNCHANGED <<sq, sr, waiting, working, products, job_queue, running, run,
                   fatal, max_retries, wt, mt, nextId, crashes, dropped>>

\* lines 336-338: job.retries += 1; self.add_job(job), up to the load of the
\* queue in StateStore.enqueue.
W_Retry(w) ==
    /\ wk[w].pc = "retry"
    /\ LET job == AssignId([wk[w].job EXCEPT !.retries = @ + 1], nextId) IN
       wk' = Wk(w, [wk[w] EXCEPT !.pc = "enqW", !.job = job, !.new = job,
                                 !.snap = sq])
    /\ UNCHANGED <<fs, nt, dk, rd, ls>>
    /\ UNCHANGED <<disk, job_queue, running, run, fatal, max_retries, wt, mt,
                   nextId, crashes, dropped, hist>>

\* ArchiveFolder with a recoverable result filed as success.
ArchiveFolder_RecoverableAsSuccess(kind, arg) ==
    IF arg[1] \/ arg[2] THEN <<kind, "success", "T">>
    ELSE IF arg[3] THEN <<kind, "fatal", "T">>
    ELSE <<kind, "failed", "T">>

\* ArchiveFolder without the fatal tag: a fatal result is filed as failed.
ArchiveFolder_FatalAsFailed(kind, arg) ==
    IF arg[1] THEN <<kind, "success", "T">>
    ELSE <<kind, "failed", "T">>

\* JobManager._archive, lines 235-240: the folder name for the result.
ArchiveFolder(kind, arg) ==
    IF arg[1] THEN <<kind, "success", "T">>
    ELSE IF arg[3] THEN <<kind, "fatal", "T">>
    ELSE <<kind, "failed", "T">>

\* AfterArchive chaining after every success, whatever the job's kind.
AfterArchive_ChainAnySuccess(arg, kind) ==
    IF arg[3] THEN "exited"
    ELSE IF arg[1] THEN "chain"
    ELSE "done"

\* What follows the _archive call of each branch: the fatal branch returns
\* (line 316), a successful optimization is chained (lines 324-325), every
\* other branch ends the step.
AfterArchive(arg, kind) ==
    IF arg[3] THEN "exited"
    ELSE IF arg[1] /\ kind = OPT THEN "chain"
    ELSE "done"

\* JobManager._archive, lines 231-243: target = unique_path(products/<mol>/
\* <folder>), the first name that does not exist when it is looked up.
W_MintTarget(w) ==
    /\ wk[w].pc = "arch"
    /\ LET job == wk[w].job
           mol == MoleculeName(job.inp)
           taken == {Subdirs(mol)[i].name : i \in 1..Len(Subdirs(mol))}
           target == unique_path(ArchiveFolder(job.kind, wk[w].arg), taken)
       IN  wk' = Wk(w, [wk[w] EXCEPT !.pc = "move", !.target = target])
    /\ UNCHANGED <<fs, nt, dk, rd, ls>>
    /\ UNCHANGED <<disk, job_queue, running, run, fatal, max_retries, wt, mt,
                   nextId, crashes, dropped, hist>>

\* The archive directory mol/name, if products/ holds it.
HasTarget(mol, name) ==
    \E i \in 1..Len(products) : products[i].mol = mol /\ products[i].name = name
TargetDir(mol, name) ==
    products[CHOOSE i \in 1..Len(products) :
                 products[i].mol = mol /\ products[i].name = name]

\* lines 244-247: target.mkdir(parents=True, exist_ok=True), then every
\* entry of the work_dir is moved into the target, over an entry of the same
\* name if there is one. srcs lists the work_dirs whose entries the
\* directory has received; the directory written last is the newest.
MoveInto(mol, name, wd, out) ==
    LET old == IF HasTarget(mol, name) THEN TargetDir(mol, name)
               ELSE [mol |-> mol, name |-> name, out |-> NoFile, srcs |-> {}]
        rest == SelectSeq(products,
                          LAMBDA d : ~(d.mol = mol /\ d.name = name))
    IN  Append(rest, [old EXCEPT !.out = IF out.exists THEN out ELSE @,
                                 !.srcs = @ \cup {wd}])

\* JobManager._archive, lines 244-253: the target is created, the entries of
\* the work_dir move there, the work_dir is removed, and the auxiliary
\* outputs are generated for success and recoverable.
W_Archive(w) ==
    /\ wk[w].pc = "move"
    /\ WorkDirExists(wk[w].wd)
    /\ LET job == wk[w].job
           mol == MoleculeName(job.inp)
       IN  /\ products' = MoveInto(mol, wk[w].target, wk[w].wd,
                                   OutputIn(wk[w].wd))
           /\ working' = {d \in working : d.name # wk[w].wd}
           /\ wk' = Wk(w, [wk[w] EXCEPT
                  !.pc = AfterArchive(wk[w].arg, job.kind),
                  !.log.arch = wk[w].target,
                  !.log.aux = wk[w].arg[1] \/ wk[w].arg[2]])
    /\ UNCHANGED <<fs, nt, dk, rd, ls>>
    /\ UNCHANGED <<sq, sr, sc, waiting, job_queue, running, run, fatal,
                   max_retries, wt, mt, nextId, crashes, dropped, hist>>

\* lines 244-246 when the work_dir no longer exists: the target is created,
\* work_dir.iterdir() raises, and line 349 of _worker logs the exception
\* and loops.
W_ArchiveRaise(w) ==
    /\ wk[w].pc = "move"
    /\ ~WorkDirExists(wk[w].wd)
    /\ LET mol == MoleculeName(wk[w].job.inp) IN
       products' = IF HasTarget(mol, wk[w].target) THEN products
                   ELSE Append(products, [mol |-> mol, name |-> wk[w].target,
                                          out |-> NoFile, srcs |-> {}])
    /\ wk' = Wk(w, WkInit("loop"))
    /\ UNCHANGED <<fs, nt, dk, rd, ls>>
    /\ UNCHANGED <<sq, sr, sc, waiting, working, job_queue, running, run,
                   fatal, max_retries, wt, mt, nextId, crashes, dropped, hist>>

\* ORCAExecutor.extract_final_xyz: the last coordinate block, if any.
extract_final_xyz(out) == out.exists /\ out.coords

\* _chain_frequency_calculation, lines 355-364: the output of the latest
\* products/<mol>/ directory whose name holds 'success' and 'opt' yields a
\* coordinate block.
ChainSource(opt_job) ==
    LET mol == MoleculeName(opt_job.inp)
        subdirs == SelectSeq(Subdirs(mol),
                             LAMBDA d : d.name[2] = "success" /\ d.name[1] = OPT)
    IN  /\ Len(subdirs) > 0
        /\ extract_final_xyz(resolve_primary_output(subdirs[Len(subdirs)].out))

\* lines 324-325 and _chain_frequency_calculation: with a coordinate block the
\* frequency deck is written to a unique waiting/<mol>_freq.inp and the new
\* job is handed to add_job, here up to the load of the queue.
W_Chain(w) ==
    /\ wk[w].pc = "chain"
    /\ ChainSource(wk[w].job)
    /\ nextId <= MaxId
    /\ LET mol == MoleculeName(wk[w].job.inp)
           freq_inp_path == unique_path(Append(mol, "freq"), waiting)
           freq_job == AssignId(ORCAJob(freq_inp_path, FREQ), nextId)
       IN  /\ waiting' = waiting \cup {freq_inp_path}
           /\ wk' = Wk(w, [wk[w] EXCEPT !.pc = "enqW", !.new = freq_job,
                                        !.snap = sq, !.log.chained = @ + 1])
    /\ nextId' = nextId + 1
    /\ UNCHANGED <<fs, nt, dk, rd, ls>>
    /\ UNCHANGED <<sq, sr, sc, working, products, job_queue, running, run,
                   fatal, max_retries, wt, mt, crashes, dropped, hist>>

\* _chain_frequency_calculation finds no coordinate block: nothing is chained.
W_NoChain(w) ==
    /\ wk[w].pc = "chain"
    /\ ~ChainSource(wk[w].job)
    /\ wk' = Wk(w, [wk[w] EXCEPT !.pc = "done"])
    /\ UNCHANGED <<fs, nt, dk, rd, ls>>
    /\ UNCHANGED <<disk, job_queue, running, run, fatal, max_retries, wt, mt,
                   nextId, crashes, dropped, hist>>

\* add_job, line 195: StateStore.enqueue(job.to_dict()), the write.
W_EnqWrite(w) ==
    /\ wk[w].pc = "enqW"
    /\ sq' = enqueue(wk[w].snap, to_dict(wk[w].new))
    /\ wk' = Wk(w, [wk[w] EXCEPT !.pc = "put", !.snap = <<>>])
    /\ UNCHANGED <<fs, nt, dk, rd, ls>>
    /\ UNCHANGED <<sr, sc, waiting, working, products, job_queue, running, run,
                   fatal, max_retries, wt, mt, nextId, crashes, dropped, hist>>

\* add_job, line 196: self.job_queue.put(job).  A retried job is archived
\* next (line 339); a chained job ends the step.
W_Put(w) ==
    /\ wk[w].pc = "put"
    /\ job_queue' = put(job_queue, wk[w].new)
    /\ wk' = Wk(w, IF wk[w].log.chained = 0
                   THEN [wk[w] EXCEPT !.pc = "arch", !.log.resub = @ + 1]
                   ELSE [wk[w] EXCEPT !.pc = "done"])
    /\ hist' = Submitted(hist, w)
    /\ UNCHANGED <<fs, nt, dk, rd, ls>>
    /\ UNCHANGED <<disk, running, run, fatal, max_retries, wt, mt, nextId,
                   crashes, dropped>>

\* line 346: self.job_queue.task_done(); the loop goes on.
W_TaskDone(w) ==
    /\ wk[w].pc = "done"
    /\ wk' = Wk(w, WkInit("loop"))
    /\ UNCHANGED <<fs, nt, dk, rd, ls>>
    /\ UNCHANGED <<disk, job_queue, running, run, fatal, max_retries, wt, mt,
                   nextId, crashes, dropped, hist>>

Worker(w) ==
    \/ W_Loop(w) \/ W_Get(w) \/ W_Timeout(w) \/ W_MintDir(w) \/ W_Register(w)
    \/ W_DeqWrite(w) \/ W_AddRunLoad(w) \/ W_AddRunWrite(w) \/ W_ExecRaise(w)
    \/ (\E out \in SolverTexts \cup {NoFile} : W_ExecEnd(w, out))
    \/ W_RmWrite(w) \/ W_Fatal(w) \/ W_AppLoad(w)
    \/ W_AppWrite(w) \/ W_Retry(w) \/ W_MintTarget(w) \/ W_Archive(w) \/ W_Chain(w)
    \/ W_NoChain(w) \/ W_EnqWrite(w) \/ W_Put(w) \/ W_TaskDone(w)

Next == Watcher \/ Main \/ Crash \/ (\E w \in Workers : Worker(w))

\* Runs with crashes and restarts.
Spec == Init /\ [][Next]_vars

\* A first start on the empty disk: the running list is empty when
\* _recover_on_start loads it, and the process does not die.
MainRun == M_Start \/ M_RecQueued \/ M_RecLoadRunning \/ M_Glob
           \/ (\E inp \in mt.decks : M_Orphan(inp))
           \/ M_OrphanEnqWrite \/ M_OrphanPut \/ M_Spawn \/ M_HostFatal
           \/ M_Stop

NextRun == Watcher \/ MainRun \/ (\E w \in Workers : Worker(w))

SpecRun == InitRun /\ [][NextRun]_vars

\* The pipeline up after a first start on the empty disk (nothing was
\* dropped while it started), two or more decks arriving, and every solver
\* run terminating normally with a coordinate block: the runs in which
\* several jobs are in flight at once.
InitPar ==
    /\ sq = <<>> /\ sr = <<>> /\ sc = <<>>
    /\ waiting = {} /\ working = {} /\ products = <<>>
    /\ job_queue = <<>> /\ running = {}
    /\ run = TRUE /\ fatal = FALSE
    /\ max_retries = 0
    /\ wk = [w \in 1..max_parallel |-> WkInit("loop")]
    /\ wt = WtInit
    /\ mt = [MtInit EXCEPT !.pc = "host", !.par = max_parallel]
    /\ nextId = 1 /\ crashes = 0 /\ dropped = {}
    /\ nt = NtInit /\ dk = DkInit /\ rd = RdInit /\ ls = LsInit
    /\ hist = [HistInit EXCEPT !.rec = <<NoFifo, <<>> >>]
    /\ fs = FsInit(<<>>)

WorkerPar(w) ==
    \/ W_Loop(w) \/ W_Get(w) \/ W_Timeout(w) \/ W_MintDir(w) \/ W_Register(w)
    \/ W_DeqWrite(w) \/ W_AddRunLoad(w) \/ W_AddRunWrite(w)
    \/ W_ExecEnd(w, Text({"NORMAL"}, TRUE))
    \/ W_RmWrite(w) \/ W_AppLoad(w) \/ W_AppWrite(w) \/ W_MintTarget(w) \/ W_Archive(w)
    \/ W_Chain(w) \/ W_EnqWrite(w) \/ W_Put(w) \/ W_TaskDone(w)

NextPar == WatcherPar \/ (\E w \in Workers : WorkerPar(w))

SpecPar == InitPar /\ [][NextPar]_vars

\* JobManager.start about to start its threads after a recovery that found
\* nothing, with max_parallel_jobs configured as 1 or more, decks arriving
\* and every solver run terminating normally. The machine could run one
\* thread more than the largest configured value.
InitSeq ==
    /\ sq = <<>> /\ sr = <<>> /\ sc = <<>>
    /\ waiting = {} /\ working = {} /\ products = <<>>
    /\ job_queue = <<>> /\ running = {}
    /\ run = TRUE /\ fatal = FALSE
    /\ max_retries = 0
    /\ wk = [w \in 1..(max_parallel + 1) |-> WkInit("unborn")]
    /\ wt = WtInit
    /\ \E n \in 1..max_parallel : mt = [MtInit EXCEPT !.pc = "orphan", !.par = n]
    /\ nextId = 1 /\ crashes = 0 /\ dropped = {}
    /\ nt = NtInit /\ dk = DkInit /\ rd = RdInit /\ ls = LsInit
    /\ hist = HistInit
    /\ fs = FsInit(<<>>)

NextSeq == WatcherPar \/ M_Spawn \/ (\E w \in Workers : WorkerPar(w))

SpecSeq == InitSeq /\ [][NextSeq]_vars

\* The pipeline up, decks arriving, no interrupt and no kill, every solver
\* run ending either normally (without a coordinate block, so nothing is
\* chained) or with a fatal pattern. Every thread that can take a step
\* eventually takes one: the worker threads, and the host loop's poll of
\* has_fatal_error() once a second. How long the interpreter takes to exit
\* after stop() is left open.
WorkerLive(w) ==
    \/ W_Loop(w) \/ W_Get(w) \/ W_Timeout(w) \/ W_MintDir(w) \/ W_Register(w)
    \/ W_DeqWrite(w) \/ W_AddRunLoad(w) \/ W_AddRunWrite(w)
    \/ W_ExecEnd(w, Text({"NORMAL"}, FALSE))
    \/ W_ExecEnd(w, Text({"FATAL"}, FALSE))
    \/ W_RmWrite(w) \/ W_Fatal(w) \/ W_AppLoad(w) \/ W_AppWrite(w)
    \/ W_MintTarget(w) \/ W_Archive(w) \/ W_NoChain(w) \/ W_TaskDone(w)

WorkersLive == \E w \in Workers : WorkerLive(w)

\* main.py:149 and 163: after stop() the host loop breaks, start() returns
\* and the interpreter exits; the worker threads are daemon threads
\* (job.py:203) and end with it wherever they are.
M_Exit ==
    /\ mt.pc = "stopped"
    /\ \E w \in Workers : wk[w].pc # "exited"
    /\ wk' = [w \in Workers |-> [wk[w] EXCEPT !.pc = "exited"]]
    /\ UNCHANGED <<fs, nt, dk, rd, ls>>
    /\ UNCHANGED <<disk, job_queue, running, run, fatal, max_retries, wt, mt,
                   nextId, crashes, dropped, hist>>

NextLive == WatcherPar \/ M_HostFatal \/ M_Exit
            \/ (\E w \in Workers : WorkerLive(w))

SpecLive ==
    InitPar /\ [][NextLive]_vars /\ WF_vars(WorkersLive) /\ WF_vars(M_HostFatal)

\* The pipeline up, a file of one name dropped more than once, every solver
\* run terminating normally with a coordinate block.
WorkerTwice(w) == WorkerPar(w) \/ W_ExecRaise(w) \/ W_Fatal(w)
                  \/ W_ArchiveRaise(w)

NextTwice == Watch_Create(MolOf(1)) \/ Watch_CreateAgain(MolOf(1))
             \/ Watch_EnqWrite \/ Watch_Put
             \/ (\E w \in Workers : WorkerTwice(w))

SpecTwice == InitPar /\ [][NextTwice]_vars

\* The pipeline up, one deck, two workers, and the solver writing any text
\* at all.
WorkerTexts(w) ==
    \/ W_Loop(w) \/ W_Get(w) \/ W_Timeout(w) \/ W_MintDir(w) \/ W_Register(w)
    \/ W_DeqWrite(w) \/ W_AddRunLoad(w) \/ W_AddRunWrite(w)
    \/ (\E out \in AllTexts : W_ExecEnd(w, out))
    \/ W_RmWrite(w) \/ W_Fatal(w) \/ W_AppLoad(w) \/ W_AppWrite(w)
    \/ W_MintTarget(w) \/ W_Archive(w) \/ W_Chain(w) \/ W_NoChain(w)
    \/ W_EnqWrite(w) \/ W_Put(w) \/ W_TaskDone(w)

NextTexts == Watcher \/ (\E w \in Workers : WorkerTexts(w))

SpecTexts == InitPar /\ [][NextTexts]_vars

\* The pipeline up, one deck, two workers, the solver writing any of its
\* texts or none, or not starting at all.
WorkerExec(w) ==
    \/ W_Loop(w) \/ W_Get(w) \/ W_Timeout(w) \/ W_MintDir(w) \/ W_Register(w)
    \/ W_DeqWrite(w) \/ W_AddRunLoad(w) \/ W_AddRunWrite(w)
    \/ (\E out \in SolverTexts \cup {NoFile} : W_ExecEnd(w, out))
    \/ W_SpawnRaise(w)
    \/ W_RmWrite(w) \/ W_Fatal(w) \/ W_AppLoad(w) \/ W_AppWrite(w)
    \/ W_MintTarget(w) \/ W_Archive(w) \/ W_Chain(w) \/ W_NoChain(w)
    \/ W_EnqWrite(w) \/ W_Put(w) \/ W_TaskDone(w)

NextExec == Watcher \/ (\E w \in Workers : WorkerExec(w))

SpecExec == InitPar /\ [][NextExec]_vars

\* One caller applying enqueue and dequeue to the queued list, one call
\* after the other, with records of a few job_ids that differ in their other
\* fields; wt keeps the last call: its kind, its argument and the list it
\* loaded.
QueueRecs ==
    {[to_dict(ORCAJob(<<MolOf(i)>>, OPT)) EXCEPT !.id = i, !.retries = r] :
        i \in 1..MaxQueueId, r \in 0..1}

InitQueue ==
    /\ sq = <<>>
    /\ sr \in {<<>>, <<CHOOSE d \in QueueRecs : d.id = 1 /\ d.retries = 0>>}
    /\ sc \in {<<>>, <<CHOOSE d \in QueueRecs : d.id = 2 /\ d.retries = 1>>}
    /\ waiting = {} /\ working = {} /\ products = <<>>
    /\ job_queue = <<>> /\ running = {}
    /\ run = FALSE /\ fatal = FALSE /\ max_retries = 0
    /\ wk = [w \in {} |-> WkInit("unborn")]
    /\ wt = WtInit /\ mt = MtInit
    /\ nextId = 1 /\ crashes = 0 /\ dropped = {}
    /\ nt = NtInit /\ dk = DkInit /\ rd = RdInit /\ ls = LsInit
    /\ hist = HistInit
    /\ fs = FsInit(<<>>)

\* StateStore.enqueue(job)
Q_Enqueue(d) ==
    /\ sq' = enqueue(sq, d)
    /\ wt' = [pc |-> "enq", job |-> d, snap |-> sq]
    /\ UNCHANGED <<fs, nt, dk, rd, ls>>
    /\ UNCHANGED <<sr, sc, waiting, working, products, job_queue, running, run,
                   fatal, max_retries, wk, mt, nextId, crashes, dropped, hist>>

\* StateStore.dequeue(job_id)
Q_Dequeue(id) ==
    /\ sq' = dequeue(sq, id)
    /\ wt' = [pc |-> "deq", job |-> [NoJob EXCEPT !.id = id], snap |-> sq]
    /\ UNCHANGED <<fs, nt, dk, rd, ls>>
    /\ UNCHANGED <<sr, sc, waiting, working, products, job_queue, running, run,
                   fatal, max_retries, wk, mt, nextId, crashes, dropped, hist>>

NextQueue == (\E d \in QueueRecs : Q_Enqueue(d))
             \/ (\E id \in 1..MaxQueueId : Q_Dequeue(id))

SpecQueue == InitQueue /\ [][NextQueue]_vars

\* ------------------------------- the job record with all its fields
\* A Path object [path |-> tokens] (Path('') has no token), a str
\* [str |-> tokens], a float [num |-> n], or None.
None == [none |-> TRUE]
PathOf(tokens) == [path |-> tokens]
\* str(path): the empty path is written '.'
StrOfPath(p) == [str |-> IF p.path = <<>> THEN <<".">> ELSE p.path]
\* Path(string): '.' and '' are the empty path
PathOfStr(t) == [path |-> IF t.str = <<".">> THEN <<>> ELSE t.str]
\* bool(v) as d.get('work_dir') is tested
Truthy(v) == v # None /\ v # [str |-> <<>>]

\* ORCAJob with its ten fields: the paths, job_type, job_id, status,
\* work_dir, the two times, error_message and retries; the optional ones
\* set and unset, the geometry path empty (Path('')) or not.
AllJobs ==
    [inp : {PathOf(<<"m1">>)},
     xyz : {PathOf(<<"m1", "xyz">>), PathOf(<<>>)},
     kind : {OPT, FREQ},
     id : {None, [str |-> <<"id1">>]},
     status : {"waiting", "running"},
     wd : {None, PathOf(<<"m1", "opt", "T">>), PathOf(<<>>)},
     start : {None, [num |-> 1]},
     end : {None, [num |-> 2]},
     err : {None, [str |-> <<>>], [str |-> <<"msg">>]},
     retries : {0, 1}]

\* to_dict stringifying every path field, a missing one included.
ToDictAll_StrAlways(job) ==
    [job EXCEPT !.inp = StrOfPath(@), !.xyz = StrOfPath(@),
                !.wd = IF @ = None THEN [str |-> <<"None">>]
                       ELSE StrOfPath(@)]

\* ORCAJob.to_dict: asdict, and str() of the path fields that are not None.
ToDictAll(job) ==
    [job EXCEPT !.inp = StrOfPath(@), !.xyz = StrOfPath(@),
                !.wd = IF @ # None THEN StrOfPath(@) ELSE None]

\* ORCAJob.from_dict: Path() of the two paths, Path() of a truthy work_dir
\* and None otherwise, int() of retries, the other fields as they are.
FromDictAll(d) ==
    [d EXCEPT !.inp = PathOfStr(@), !.xyz = PathOfStr(@),
              !.wd = IF Truthy(@) THEN PathOfStr(@) ELSE None]

\* A job is converted and enqueued on the empty queue file, the file is
\* read back and the job rebuilt; wt holds the job, mt.list what
\* [ORCAJob.from_dict(j) for j in load_queue()] gives.
InitTrip ==
    /\ sq = <<>> /\ sr = <<>> /\ sc = <<>>
    /\ waiting = {} /\ working = {} /\ products = <<>>
    /\ job_queue = <<>> /\ running = {}
    /\ run = FALSE /\ fatal = FALSE /\ max_retries = 0
    /\ wk = [w \in {} |-> WkInit("unborn")]
    /\ \E job \in AllJobs : wt = [pc |-> "job", job |-> job, snap |-> <<>>]
    /\ mt = MtInit
    /\ nextId = 1 /\ crashes = 0 /\ dropped = {}
    /\ nt = NtInit /\ dk = DkInit /\ rd = RdInit /\ ls = LsInit
    /\ hist = HistInit
    /\ fs = FsInit(<<>>)

\* state.enqueue(job.to_dict())
T_Enqueue ==
    /\ wt.pc = "job"
    /\ sq' = enqueue(sq, ToDictAll(wt.job))
    /\ wt' = [wt EXCEPT !.pc = "saved"]
    /\ UNCHANGED <<fs, nt, dk, rd, ls>>
    /\ UNCHANGED <<sr, sc, waiting, working, products, job_queue, running, run,
                   fatal, max_retries, wk, mt, nextId, crashes, dropped, hist>>

\* [ORCAJob.from_dict(j) for j in self.state.load_queue()]
T_Load ==
    /\ wt.pc = "saved"
    /\ LET q == read_json(WholeFile(sq)) IN
       mt' = [mt EXCEPT !.pc = "loaded",
                        !.list = [k \in 1..Len(q) |-> FromDictAll(q[k])]]
    /\ wt' = [wt EXCEPT !.pc = "done"]
    /\ UNCHANGED <<fs, nt, dk, rd, ls>>
    /\ UNCHANGED <<disk, job_queue, running, run, fatal, max_retries, wk,
                   nextId, crashes, dropped, hist>>

NextTrip == T_Enqueue \/ T_Load

SpecTrip == InitTrip /\ [][NextTrip]_vars

\* Threads mutating one list file (enqueue and dequeue of queue.json) with
\* the steps of _atomic_write apart, and the process dying in between.
StoreLists == {<<>>, <<[id |-> 1]>>, <<[id |-> 1], [id |-> 2]>>}
InitStore ==
    InitWith({}) /\ max_retries = 0 /\ fs \in {FsInit(q) : q \in StoreLists}
NextStore ==
    \/ \E t \in Writers, id \in 1..MaxStoreId, add \in BOOLEAN : S_Load(t, id, add)
    \/ \E t \in Writers : S_Open(t)
    \/ \E t \in Writers : S_Write(t)
    \/ \E t \in Writers : S_Replace(t)
    \/ S_Crash
SpecStore == InitStore /\ [][NextStore]_vars

\* One list file that starts absent, empty (no byte), cut short, or with the
\* text of a list; hist.app is the job_ids in the order in which enqueue
\* was called to append them.
FsAbsent == [FsInit(<<>>) EXCEPT !.path = Absent, !.ino[1] = EmptyFile]
FsNoByte == [FsInit(<<>>) EXCEPT !.ino[1] = EmptyFile]
FsCut == [FsInit(<<>>) EXCEPT !.ino[1] = [data |-> <<>>, len |-> 1, whole |-> FALSE]]
InitLoad ==
    /\ sq = <<>> /\ sr = <<>> /\ sc = <<>>
    /\ waiting = {} /\ working = {} /\ products = <<>>
    /\ job_queue = <<>> /\ running = {}
    /\ run = FALSE /\ fatal = FALSE /\ max_retries = 0
    /\ wk = [w \in {} |-> WkInit("unborn")]
    /\ wt = WtInit /\ mt = MtInit
    /\ nextId = 1 /\ crashes = 0 /\ dropped = {}
    /\ nt = NtInit /\ dk = DkInit /\ rd = RdInit /\ ls = LsInit
    /\ \/ fs \in {FsAbsent, FsNoByte, FsCut} /\ hist = HistInit
       \/ \E q \in StoreLists :
             /\ fs = FsInit(q)
             /\ hist = [HistInit EXCEPT !.app = [k \in 1..Len(q) |-> q[k].id]]

\* StateStore.enqueue / dequeue up to the call of _atomic_write, the
\* appended job_id noted.
L_Load(t, id, add) ==
    /\ fs.th[t].pc = "idle"
    /\ add => Len(hist.app) < MaxAppends
    /\ LET q == IF add THEN enqueue(Loaded, [id |-> id])
                       ELSE dequeue(Loaded, id)
       IN  /\ add => ~HasId(Loaded, id)
           /\ fs' = [fs EXCEPT !.th[t] = [pc |-> "call", data |-> q, fd |-> 0]]
    /\ hist' = [hist EXCEPT !.app = IF add THEN Append(@, id) ELSE @]
    /\ UNCHANGED <<sq, sr, sc, waiting, working, products, job_queue, running,
                   run, fatal, max_retries, wk, wt, mt, nextId, crashes,
                   dropped, nt, dk, rd, ls>>

NextLoad ==
    \/ \E t \in Writers, id \in 1..MaxStoreId, add \in BOOLEAN : L_Load(t, id, add)
    \/ \E t \in Writers : S_Open(t)
    \/ \E t \in Writers : S_Write(t)
    \/ \E t \in Writers : S_Replace(t)
    \/ S_Crash
SpecLoad == InitLoad /\ [][NextLoad]_vars

\* The pipeline up and the monitor thread started (main.py:140), with one
\* molecule dropped.
InitNotify ==
    /\ sq = <<>> /\ sr = <<>> /\ sc = <<>>
    /\ waiting = {} /\ working = {} /\ products = <<>>
    /\ job_queue = <<>> /\ running = {}
    /\ run = TRUE /\ fatal = FALSE /\ max_retries = 0
    /\ wk = [w \in 1..max_parallel |-> WkInit("loop")]
    /\ wt = WtInit
    /\ mt = [MtInit EXCEPT !.pc = "host", !.par = max_parallel]
    /\ nextId = 1 /\ crashes = 0 /\ dropped = {}
    /\ hist = [HistInit EXCEPT !.rec = <<NoFifo, <<>> >>]
    /\ fs = FsInit(<<>>)
    /\ dk = DkInit /\ rd = RdInit /\ ls = LsInit
    /\ \E th \in Thresholds, db \in Debounces :
          nt = [NtInit EXCEPT !.pc = "poll", !.threshold = th, !.debounce = db]

NextNotify == Watcher \/ N_Poll \/ N_PollRaise \/ (\E w \in Workers : WorkerPar(w))

SpecNotify == InitNotify /\ [][NextNotify]_vars

\* Decks written from every drawn configuration.
InitDeck ==
    /\ sq = <<>> /\ sr = <<>> /\ sc = <<>>
    /\ waiting = {} /\ working = {} /\ products = <<>>
    /\ job_queue = <<>> /\ running = {}
    /\ run = FALSE /\ fatal = FALSE /\ max_retries = 0
    /\ wk = [w \in {} |-> WkInit("unborn")]
    /\ wt = WtInit /\ mt = MtInit
    /\ nextId = 1 /\ crashes = 0 /\ dropped = {}
    /\ hist = HistInit
    /\ fs = FsInit(<<>>) /\ nt = NtInit /\ rd = RdInit /\ ls = LsInit
    /\ \E cfg \in Configs : dk = [DkInit EXCEPT !.cfg = cfg]

NextDeck == D_GenerateInp \/ D_MakeFreqInp

SpecDeck == InitDeck /\ [][NextDeck]_vars

\* safe_parse_orca_output called on an output with any text, with reads
\* that fail any number of times.
InitRead ==
    /\ sq = <<>> /\ sr = <<>> /\ sc = <<>>
    /\ waiting = {} /\ working = {} /\ products = <<>>
    /\ job_queue = <<>> /\ running = {}
    /\ run = FALSE /\ fatal = FALSE /\ max_retries = 0
    /\ wk = [w \in {} |-> WkInit("unborn")]
    /\ wt = WtInit /\ mt = MtInit
    /\ nextId = 1 /\ crashes = 0 /\ dropped = {}
    /\ hist = HistInit
    /\ fs = FsInit(<<>>) /\ nt = NtInit /\ dk = DkInit /\ ls = LsInit
    /\ \E text \in AllTexts : rd = [RdInit EXCEPT !.pc = "read", !.file = text]

NextRead == (\E ok \in BOOLEAN : R_Attempt(ok)) \/ R_Parse

SpecRead == InitRead /\ [][NextRead]_vars

\* resolve_primary_output called on any directory of at most MaxFiles files,
\* listed in any order, for either stem.
InitResolve ==
    /\ sq = <<>> /\ sr = <<>> /\ sc = <<>>
    /\ waiting = {} /\ working = {} /\ products = <<>>
    /\ job_queue = <<>> /\ running = {}
    /\ run = FALSE /\ fatal = FALSE /\ max_retries = 0
    /\ wk = [w \in {} |-> WkInit("unborn")]
    /\ wt = WtInit /\ mt = MtInit
    /\ nextId = 1 /\ crashes = 0 /\ dropped = {}
    /\ hist = HistInit
    /\ fs = FsInit(<<>>) /\ nt = NtInit /\ dk = DkInit /\ rd = RdInit
    /\ \E d \in Listings, stem \in Stems :
         ls = [LsInit EXCEPT !.pc = "call", !.dir = d, !.stem = stem]

NextResolve == P_Resolve

SpecResolve == InitResolve /\ [][NextResolve]_vars

\* ================================================================= claims
\* The job ids the engine holds: in the FIFO, or in the hands of a worker
\* inside its step.
Held == Ids(job_queue) \cup {wk[w].job.id : w \in {v \in Workers : InStep(v)}}

\* C1: at every observable point no job id is in the persisted queued list
\* and in the persisted running list at the same time.
C1_QueuedRunningDisjoint == \A i \in 1..Len(sq) : ~HasId(sr, sq[i].id)

\* Every job the engine holds is in at least one of the persisted lists.
C2_Listed == \A id \in Held : id \in Ids(sq) \cup Ids(sr) \cup Ids(sc)

\* A completed record stays completed, and a running record is queued again
\* only with a larger retry count.
C2_Forward ==
    /\ \A i \in 1..Len(sc) : HasId(sc', sc[i].id)
    /\ \A i \in 1..Len(sr) : \A k \in 1..Len(sq') :
          (sq'[k].id = sr[i].id /\ ~HasId(sq, sr[i].id))
              => sq'[k].retries > sr[i].retries

\* C2: every job submitted with add_job is, from then on, in at least one
\* of the persisted lists (queued, running, completed), and it moves only
\* in the direction queued -> running -> completed within one attempt.
C2_ListedAndForward == [](C2_Listed) /\ [][C2_Forward]_vars

\* C3: once a job has reached a final outcome, the persisted completed list
\* holds exactly one record with its job id.
C3_ExactlyOneRecord == \A id \in hist.final : CountId(sc, id) = 1

\* The pipeline is at rest: it is up, every molecule has been dropped, the
\* watcher is idle, the FIFO is empty and no worker is inside a step.
Quiescent ==
    /\ mt.pc = "host" /\ wt.pc = "idle" /\ job_queue = <<>>
    /\ \A w \in Workers : ~InStep(w)
    /\ dropped = {MolOf(i) : i \in 1..MaxMol}

\* The completed jobs, by the molecule their deck was generated for and
\* their kind (retry counts, timestamps and the suffixes of renamed decks
\* set aside), and what a run without a crash completes when every solver
\* run terminates normally with a coordinate block: the optimization of
\* each molecule and the frequency job chained from it.
CompletedJobs == {<<sc[i].inp[1], sc[i].kind>> : i \in 1..Len(sc)}
CrashFreeJobs == {<<m, k>> : m \in dropped, k \in {OPT, FREQ}}

\* C4: a crash at any point inside a worker step, followed by a restart,
\* ends with the same set of completed jobs (decks, kinds, outcomes, the
\* chained frequency job included) as the run without the crash: no job is
\* lost and none is completed twice.
C4_CrashPointEquivalence ==
    (Quiescent /\ hist.allok /\ ~hist.early /\ hist.instep)
        => /\ CompletedJobs = CrashFreeJobs
           /\ Len(sc) = Cardinality(CrashFreeJobs)

\* C5: running _recover_on_start twice in a row on the same on-disk state
\* leaves the FIFO after the second run as it was after the first (same job
\* ids, same decks, same order).
C5_RecoveryIdempotent ==
    (hist.rec[1] # NoFifo /\ hist.rec[2] # NoFifo) => hist.rec[1] = hist.rec[2]

\* Worker w has finished the branch of a step whose run was classified
\* incomplete (not success, not recoverable, not fatal).
IncompleteDone(w) ==
    wk[w].pc = "done" /\ OutcomeOf(wk[w].res) = "incomplete"

\* C6: a job whose every attempt is classified incomplete is executed
\* max_retries + 1 times in all (once with max_retries = 0).  Each attempt
\* below the bound raises the retry count by one, re-submits the job once
\* (later attempts may start while this step still archives), appends no
\* completion record and archives the work_dir as <kind>_failed_*;
\* the last attempt appends the one completion record, re-submits nothing
\* and archives as <kind>_failed_* with the recoverable disposition.
C6_RetryBound ==
    /\ \A id \in 1..MaxId : hist.execs[id] <= max_retries + 1
    /\ \A w \in Workers : IncompleteDone(w) =>
         LET job == wk[w].job
             log == wk[w].log
         IN  /\ log.arch # <<>>
             /\ log.arch[1] = job.kind /\ log.arch[2] = "failed"
             /\ log.sent = 0 /\ log.chained = 0
             /\ IF log.resub > 0
                THEN /\ log.resub = 1 /\ log.app = 0 /\ ~log.aux
                     /\ job.retries \in 1..max_retries
                     /\ hist.execs[job.id] >= job.retries
                ELSE /\ log.app = 1 /\ log.aux
                     /\ job.retries = max_retries
                     /\ hist.execs[job.id] = max_retries + 1

\* A job has been retried once and has ended its last attempt incomplete.
C6_Witness ==
    \E w \in Workers :
        /\ IncompleteDone(w) /\ wk[w].log.app = 1
        /\ max_retries = 1 /\ hist.execs[wk[w].job.id] = 2

\* Worker w has archived the work_dir of a run classified fatal.
FatalArchived(w) == wk[w].arg[3] /\ wk[w].log.arch # <<>>

\* C7: when a run is classified fatal, the fatal flag is set (and
\* has_fatal_error() is true from then on), send_error is called once, one
\* completion record is appended, the work_dir is archived as
\* <kind>_fatal_* and removed, the job is not re-submitted and nothing is
\* chained, and the worker that handled it exits its loop.
C7_FatalPath ==
    \A w \in Workers : FatalArchived(w) =>
        /\ fatal
        /\ wk[w].pc = "exited"
        /\ wk[w].log.sent = 1 /\ wk[w].log.app = 1
        /\ wk[w].log.arch[1] = wk[w].job.kind /\ wk[w].log.arch[2] = "fatal"
        /\ ~WorkDirExists(wk[w].wd)
        /\ wk[w].log.resub = 0 /\ wk[w].log.chained = 0
        /\ ~HasId(job_queue, wk[w].job.id)

\* A worker has exited on a fatal result while the other is still looping.
C7_Witness ==
    \E w \in Workers :
        /\ FatalArchived(w) /\ wk[w].pc = "exited"
        /\ \E v \in Workers : wk[v].pc \in {"loop", "get"}

\* C8: once the fatal flag is set or stop() has been called, no worker takes
\* a further job off the FIFO: every job a worker dequeues, it dequeues
\* while _run is true and the fatal flag is clear.
C8_NoDispatchAfterFlag ==
    [][\A w \in Workers :
          (wk[w].pc = "get" /\ wk'[w].pc = "got") => (run /\ ~fatal)]_vars

\* The molecule a frequency deck <mol>_freq.inp (made unique) was chained
\* for.
ParentMol(inp) ==
    IF inp[Len(inp)] = "freq" THEN SubSeq(inp, 1, Len(inp) - 1)
    ELSE SubSeq(inp, 1, Len(inp) - 2)

\* products/<mol>/ holds the archive of a successful optimization.
OptSuccessArchived(mol) ==
    \E i \in 1..Len(products) :
        /\ products[i].mol = mol
        /\ products[i].name[1] = OPT /\ products[i].name[2] = "success"

\* C9: a frequency job is created by chaining only, and only after its
\* parent optimization was classified success, appended to the completed
\* list and archived; a frequency job in the FIFO or the persisted queue has
\* the archive of its parent's success, so none is there when the parent is
\* submitted.
C9_ChainAfterSuccess ==
    /\ \A w \in Workers : wk[w].log.chained > 0 =>
          /\ wk[w].log.chained = 1
          /\ wk[w].job.kind = OPT /\ wk[w].res[1]
          /\ wk[w].log.app = 1
          /\ wk[w].log.arch # <<>>
          /\ wk[w].log.arch[1] = OPT /\ wk[w].log.arch[2] = "success"
          /\ wk[w].new.kind = FREQ
          /\ ParentMol(wk[w].new.inp) = MoleculeName(wk[w].job.inp)
    /\ \A q \in {job_queue, sq} : \A i \in 1..Len(q) :
          q[i].kind = FREQ => OptSuccessArchived(ParentMol(q[i].inp))

\* A worker has chained a frequency job, which is in the FIFO.
C9_Witness ==
    \E w \in Workers :
        /\ wk[w].pc = "done" /\ wk[w].log.chained = 1
        /\ HasId(job_queue, wk[w].new.id)

\* Worker w ends the step of an optimization classified success whose
\* archived output holds a final coordinate block.
OptSuccessStepEnds(w) ==
    /\ wk[w].pc # "done" /\ wk'[w].pc = "done"
    /\ wk[w].job.kind = OPT /\ wk[w].res[1]
    /\ \E i \in 1..Len(products) :
          /\ products[i].mol = MoleculeName(wk[w].job.inp)
          /\ products[i].name = wk[w].log.arch
          /\ extract_final_xyz(products[i].out)

\* C10: when the step of an optimization classified success, with a final
\* coordinate block in its output, ends, the work_dir has been archived
\* under products/<mol>/opt_success_* and exactly one new frequency job,
\* with the deck waiting/<mol>_freq.inp (made unique), is in the persisted
\* queue and in the FIFO.
C10_ChainedJobEnqueued ==
    [][\A w \in Workers : OptSuccessStepEnds(w) =>
          /\ wk[w].log.arch[1] = OPT /\ wk[w].log.arch[2] = "success"
          /\ ~WorkDirExists(wk[w].wd)'
          /\ wk[w].new.kind = FREQ
          /\ wk[w].new.inp \in waiting'
          /\ ParentMol(wk[w].new.inp) = MoleculeName(wk[w].job.inp)
          /\ CountId(sq', wk[w].new.id) = 1
          /\ CountId(job_queue', wk[w].new.id) = 1]_vars

\* The jobs that are pending or being executed: those in the FIFO, and
\* those a worker has taken and whose solver run has not returned yet.
Executing(w) ==
    wk[w].pc \in {"got", "mkdir", "deqW", "addrL", "addrW", "solving"}
PendingOrExecuting(kind) ==
    Cardinality({i \in 1..Len(job_queue) : job_queue[i].kind = kind})
    + Cardinality({w \in Workers : Executing(w) /\ wk[w].job.kind = kind})

\* C11: at every instant, the interval between a worker taking a job off
\* the FIFO and registering it in the running map included,
\* get_weighted_task_count() is 2 times the optimize jobs plus 1 times the
\* frequency jobs that are pending or being executed, each counted once.
C11_WeightedCount ==
    get_weighted_task_count
        = 2 * PendingOrExecuting(OPT) + PendingOrExecuting(FREQ)

\* Every molecule has been dropped and its submission has returned.
AllSubmitted ==
    dropped = {MolOf(i) : i \in 1..MaxMolPar} /\ wt.pc = "idle"

\* No worker has taken a job yet.
NothingTaken ==
    /\ \A w \in Workers : ~InStep(w)
    /\ \A id \in 1..MaxId : hist.execs[id] = 0

\* C12: after the last external submission the values of
\* get_weighted_task_count() start at the sum of the weights of the
\* submitted jobs and never increase for the rest of the run, whatever the
\* number of workers and the outcomes of the jobs.
C12_CountNonIncreasing ==
    /\ []((AllSubmitted /\ NothingTaken)
             => get_weighted_task_count = 2 * MaxMolPar)
    /\ [][AllSubmitted =>
             get_weighted_task_count' <= get_weighted_task_count]_vars

\* The job ids a step takes out of / puts into a persisted list.
Gone(list, list2) == Ids(list) \ Ids(list2)
Came(list, list2) == Ids(list2) \ Ids(list)

\* The thread whose write this step is: its own mutation of the list.
QueueWriterRemoves ==
    {wk[w].job.id : w \in {v \in Workers : wk[v].pc = "deqW"}}
QueueWriterAdds ==
    {wk[w].new.id : w \in {v \in Workers : wk[v].pc = "enqW"}}
        \cup (IF wt.pc = "enqW" THEN {wt.job.id} ELSE {})
RunningWriterRemoves ==
    {wk[w].job.id : w \in {v \in Workers : wk[v].pc = "rmW"}}
RunningWriterAdds ==
    {wk[w].job.id : w \in {v \in Workers : wk[v].pc = "addrW"}}

\* C13: concurrent mutations of one StateStore list are serialized per
\* file: a write changes the persisted list by the writer's own mutation
\* only, so no enqueue, dequeue, add_running, remove_running or
\* append_completed of another thread is lost or undone.
C13_WritesSerialized ==
    [][/\ Gone(sq, sq') \subseteq QueueWriterRemoves
       /\ Came(sq, sq') \subseteq QueueWriterAdds
       /\ Gone(sr, sr') \subseteq RunningWriterRemoves
       /\ Came(sr, sr') \subseteq RunningWriterAdds
       /\ Gone(sc, sc') = {}]_vars

\* C14: for a crash or a write failure at any point inside a StateStore
\* mutation, the next load of the list returns the complete list before the
\* mutation or the complete list after it, never a partially written or
\* mixed one: the file the list's name refers to always holds the whole
\* text of one list, and it changes only by the rename of a mutation (a
\* failure before the rename leaves the previous list intact).
C14_LoadSeesWholeList ==
    /\ [](fs.ino[fs.path].whole)
    /\ [][fs.ino[fs.path]' # fs.ino[fs.path]
             => \E t \in Writers :
                   fs.th[t].pc = "closed" /\ fs.th'[t].pc = "idle"]_vars

\* The running record _recover_on_start is dealing with, and the main
\* thread taking a step of it from position pc.
RecRecord == mt.list[mt.i]
RecStep(pc) == mt.pc = pc /\ mt'.pc # pc /\ crashes' = crashes

\* C15: on start, every running record for which no primary output is found
\* (neither in its work_dir nor under products), or whose output is
\* classified recoverable or incomplete, is removed from the running list
\* and re-enqueued, in the persisted queue and in the FIFO, with status
\* waiting, the same job_id and the same retries count.
C15_RecoveryRequeues ==
    [][/\ (RecStep("rjob") /\ ~RecoverOutput(RecRecord).exists)
             => mt'.pc = "renqL"
       /\ (RecStep("rrmW") /\ mt.found /\ ~mt.res[1] /\ ~mt.res[3])
             => mt'.pc = "renqL"
       /\ RecStep("rrmW") => ~HasId(sr', RecRecord.id)
       /\ RecStep("renqL") => mt'.pc = "renqW"
       /\ RecStep("renqW")
             => /\ mt'.pc = "rput"
                /\ \E k \in 1..Len(sq') :
                      /\ sq'[k].id = RecRecord.id
                      /\ \/ sq'[k] = [RecRecord EXCEPT !.status = "waiting"]
                         \/ HasId(sq, RecRecord.id)
       /\ RecStep("rput")
             => /\ job_queue'
                     = Append(job_queue, [RecRecord EXCEPT !.status = "waiting"])
                /\ ~mt.found => mt'.pc = "rrmW"]_vars

\* Recovery has found an output classified recoverable or incomplete, has
\* removed the record from the running list and written it to the queue.
C15_Witness ==
    /\ mt.pc = "rput" /\ mt.found
    /\ OutcomeOf(mt.res) \in {"recoverable", "incomplete"}
    /\ ~HasId(sr, mt.job.id)
    /\ \E k \in 1..Len(sq) : sq[k] = mt.job /\ sq[k].status = "waiting"

\* C16: on start, for every running record whose primary output is found
\* and classified success, after recovery the record is in completed and
\* not in running, and its work_dir, if it still existed, has been archived
\* into the products tree: it no longer exists under the working directory.
C16_RecoveredSuccessArchived ==
    [][(RecStep("rappW") /\ mt.res[1])
          => /\ HasId(sc', RecRecord.id)
             /\ ~HasId(sr', RecRecord.id)
             /\ RecRecord.wd \notin WorkDirs']_vars

\* The workers whose solver invocation (executor.run, line 300) is in
\* progress.
Solving == {w \in Workers : wk[w].pc = "solving"}

\* C17: at most max_parallel solver invocations are in progress at any
\* time; with max_parallel = 1 at most one worker is inside its step, so
\* the jobs run strictly one after the other.
C17_ParallelBound ==
    /\ Cardinality(Solving) <= mt.par
    /\ mt.par = 1 => Cardinality({w \in Workers : InStep(w)}) <= 1

\* max_parallel = 2 and two solver invocations in progress at once.
C17_Witness == mt.par = 2 /\ Cardinality(Solving) = 2

\* The attempt worker w holds was classified recoverable by the executor.
Recoverable(w) == ~wk[w].res[1] /\ wk[w].res[2] /\ ~wk[w].res[3]

\* C18: when an attempt is classified recoverable, the worker's steps on it
\* leave the fatal flag unchanged, it is not re-submitted, nothing is
\* chained and no error is sent; once the work_dir is archived the job has
\* been appended once to completed, the archive is <kind>_failed_*, the
\* work_dir is gone, and the worker's next step is back at the head of its
\* loop.
C18_RecoverablePath ==
    [][\A w \in Workers : Recoverable(w) =>
          /\ wk'[w] # wk[w] => fatal' = fatal
          /\ wk[w].pc \in {"rmW", "appL", "appW", "arch", "move", "done"}
          /\ wk[w].log.resub = 0 /\ wk[w].log.chained = 0
          /\ wk[w].log.sent = 0
          /\ wk[w].log.arch # <<>> =>
                /\ wk[w].pc = "done" /\ wk[w].log.app = 1
                /\ wk[w].log.arch[1] = wk[w].job.kind
                /\ wk[w].log.arch[2] = "failed"
                /\ ~WorkDirExists(wk[w].wd)
                /\ ~HasId(job_queue, wk[w].job.id)
                /\ wk'[w] # wk[w] => wk'[w].pc = "loop"]_vars

\* A worker has archived a recoverable attempt of a frequency job.
C18_Witness ==
    \E w \in Workers :
        /\ Recoverable(w) /\ wk[w].pc = "done" /\ wk[w].log.arch # <<>>
        /\ wk[w].job.kind = FREQ

\* Every worker thread has returned from _worker and the host loop has
\* called stop().
ShutDown == (\A w \in Workers : wk[w].pc = "exited") /\ mt.pc = "stopped"

\* C19: once a worker has recorded a fatal outcome, and every solver
\* invocation in progress terminates, eventually every worker thread has
\* exited and the host loop has observed has_fatal_error() and called
\* stop(); the fatal flag, once true, never becomes false again.
C19_FatalShutdown == (fatal ~> ShutDown) /\ [][fatal => fatal']_vars

\* The pipeline has shut down after a fatal outcome that was recorded while
\* the other worker's solver was running: that worker finished its job.
C19_Witness ==
    /\ fatal /\ ShutDown
    /\ \E w \in Workers : FatalArchived(w)
    /\ \E v \in Workers : ~FatalArchived(v) /\ Len(sc) = 2

\* The ids of a sequence of jobs or records, in order.
IdSeq(q) == [k \in 1..Len(q) |-> q[k].id]

\* C20: a job gets its job_id on its first add_job (from the watcher, the
\* orphan scan or the chaining) and keeps it: the job a worker holds has the
\* same id through every step of the worker, the job re-submitted on retry
\* carries the id of the attempt, the record written for a job carries the
\* job's id, and the jobs recovery rebuilds from the persisted queued and
\* running lists carry the ids of the records, in order.
C20_JobIdStable ==
    [][/\ (wt.pc = "idle" /\ wt'.pc = "enqW") => wt'.job.id = nextId
       /\ (wt.pc = "enqW" /\ wt'.pc = "put") =>
              /\ wt'.job.id = wt.job.id
              /\ \E k \in 1..Len(sq') : sq'[k].id = wt.job.id
       /\ \A w \in Workers :
            /\ (InStep(w) /\ wk'[w].pc \notin {"unborn", "loop"})
                  => wk'[w].job.id = wk[w].job.id /\ wk[w].job.id # 0
            /\ (wk[w].pc = "retry" /\ wk'[w].pc = "enqW")
                  => wk'[w].new.id = wk[w].job.id
            /\ (wk[w].pc = "put" /\ wk'[w].pc \in {"arch", "done"})
                  => job_queue'[Len(job_queue')].id = wk[w].new.id
            /\ (wk[w].pc = "addrW" /\ wk'[w].pc = "solving")
                  => \E k \in 1..Len(sr') : sr'[k].id = wk[w].job.id
       /\ RecStep("rq") =>
              job_queue' = job_queue \o FromDicts(sq)
              /\ IdSeq(job_queue') = IdSeq(job_queue) \o IdSeq(sq)
       /\ RecStep("rload") => IdSeq(mt'.list) = IdSeq(sr)
       /\ RecStep("rput") =>
              job_queue'[Len(job_queue')].id = RecRecord.id]_vars

\* After a restart the FIFO holds, under its old id, a job that had been
\* re-submitted on retry before the process died.
C20_Witness ==
    /\ crashes >= 1 /\ mt.pc = "host"
    /\ \E k \in 1..Len(job_queue) :
         /\ job_queue[k].retries = 1 /\ job_queue[k].id = 1
         /\ hist.execs[1] >= 1

\* Worker w has created its work_dir (line 291) and not archived it yet.
OwnsWorkDir(w) ==
    wk[w].pc \in {"deqW", "addrL", "addrW", "solving", "rmW", "fatal", "appL",
                  "appW", "retry", "enqW", "put", "arch", "move"}
    /\ wk[w].log.arch = <<>>

\* Worker w has registered its job in the running map (line 294) and not
\* popped it yet (line 303).
Registered(w) == wk[w].pc \in {"deqW", "addrL", "addrW", "solving"}

\* C21: two workers never hold the same work_dir between its creation and
\* its archive, and every job registered in the running map has the entry
\* of its work_dir to itself.
C21_WorkDirExclusive ==
    /\ \A v, w \in Workers :
          (v # w /\ OwnsWorkDir(v) /\ OwnsWorkDir(w)) => wk[v].wd # wk[w].wd
    /\ \A w \in Workers : Registered(w) =>
          \E r \in running : r.wd = wk[w].wd /\ r.id = wk[w].job.id

\* Worker w returns from the moves of _archive in this step.
ArchiveReturns(w) == wk[w].pc = "move" /\ wk'[w].log.arch # <<>>

\* C22: when _archive returns, two workers archiving attempts of the same
\* molecule and kind within the same second included, the work_dir has been
\* removed and the target directory holds all and only the entries that were
\* in that work_dir: it has received the entries of no other work_dir, and
\* its output is the one the work_dir held.
C22_ArchiveAllAndOnly ==
    [][\A w \in Workers : ArchiveReturns(w) =>
          /\ wk[w].wd \notin WorkDirs'
          /\ \E i \in 1..Len(products') :
                /\ products'[i].mol = MoleculeName(wk[w].job.inp)
                /\ products'[i].name = wk'[w].log.arch
                /\ products'[i].srcs = {wk[w].wd}
                /\ products'[i].out = OutputIn(wk[w].wd)]_vars

\* The tag the outcome of a result stands for in an archive name.
OutcomeTag(res) ==
    IF res[1] THEN "success" ELSE IF res[3] THEN "fatal" ELSE "failed"

\* Worker w has finished the attempt it holds: the step is past its last
\* branch (task_done is next, or the chaining, or the worker has returned on
\* a fatal result).
AttemptFinished(w) ==
    wk[w].pc \in {"done", "chain"} \/ (wk[w].pc = "exited" /\ wk[w].res[3])

\* C23: every attempt a worker finishes has been archived, once, into a
\* directory named <kind>_success_* for success, <kind>_fatal_* for fatal
\* and <kind>_failed_* for recoverable and for incomplete, retried or not.
C23_ArchiveNameEncodesOutcome ==
    [][\A w \in Workers :
          /\ AttemptFinished(w) => wk[w].log.arch # <<>>
          /\ wk[w].log.arch # <<>> =>
                /\ wk[w].log.arch[1] = wk[w].job.kind
                /\ wk[w].log.arch[2] = OutcomeTag(wk[w].res)
                /\ HasTarget(MoleculeName(wk[w].job.inp), wk[w].log.arch)
                /\ wk'[w].pc \notin {"arch", "move"}]_vars

\* A worker has finished an incomplete attempt it re-submitted, archived as
\* failed, and the other a successful frequency run.
C23_Witness ==
    \E v, w \in Workers :
        /\ wk[w].pc = "done" /\ wk[w].res = <<FALSE, FALSE, FALSE>>
        /\ wk[w].log.resub = 1 /\ wk[w].log.arch[2] = "failed"
        /\ wk[v].pc = "done" /\ wk[v].res[1] /\ wk[v].job.kind = FREQ
        /\ wk[v].log.arch[2] = "success"

\* The decision order, first match wins.
DecisionOrder(text) ==
    IF "NORMAL" \in text.marks THEN "success"
    ELSE IF "FATAL" \in text.marks THEN "fatal"
    ELSE IF "RECOV" \in text.marks THEN "recoverable"
    ELSE IF "ERROR" \in text.marks THEN "recoverable"
    ELSE "incomplete"

\* Worker w holds the classification of the output in its work_dir.
Classified(w) ==
    wk[w].pc \in {"rmW", "fatal", "appL", "appW", "retry", "arch", "move"}
    /\ wk[w].log.arch = <<>>

\* C24: for every text the solver leaves in a work_dir, the result the
\* worker holds is the outcome of the decision order (normal marker, else
\* fatal pattern, else recoverable pattern, else generic ERROR token, else
\* incomplete), exactly one of success, recoverable and fatal is set or none
\* is, and classifying the same text again gives the same result.
C24_DecisionOrder ==
    \A w \in Workers : Classified(w) =>
        LET text == OutputIn(wk[w].wd) IN
        /\ text \in AllTexts
        /\ OutcomeOf(wk[w].res) = DecisionOrder(text)
        /\ Cardinality({k \in 1..3 : wk[w].res[k]}) <= 1
        /\ safe_parse_orca_output(text) = wk[w].res

\* The output of a frequency job holding a fatal pattern, a recoverable
\* pattern and the ERROR token has been classified fatal, after the output
\* of its optimization holding the marker and every pattern was classified
\* success.
C24_Witness ==
    \E w \in Workers :
        /\ Classified(w) /\ wk[w].job.kind = FREQ
        /\ OutputIn(wk[w].wd).marks = {"FATAL", "RECOV", "ERROR"}
        /\ wk[w].res[3]
        /\ \E i \in 1..Len(products) :
              products[i].name[2] = "success" /\ products[i].out.marks = Marks

\* C25: an enqueue of a record whose job_id is already in the queued list
\* leaves the list as it was; after any sequence of enqueues and dequeues
\* the queued list holds at most one record per job_id (and none of a
\* job_id just dequeued); enqueue and dequeue leave the running and the
\* completed list alone.
C25_EnqueueIdempotent ==
    [][/\ \A id \in 1..MaxQueueId : CountId(sq', id) <= 1
       /\ (wt'.pc = "enq" /\ HasId(sq, wt'.job.id)) => sq' = sq
       /\ (wt'.pc = "enq" /\ ~HasId(sq, wt'.job.id)) => sq' = Append(sq, wt'.job)
       /\ wt'.pc = "deq" => ~HasId(sq', wt'.job.id)
       /\ sr' = sr /\ sc' = sc]_vars

\* A record of a queued job_id, other than the one queued, has been
\* enqueued on a list of two records, with records in the other two lists.
C25_Witness ==
    /\ wt.pc = "enq" /\ Len(wt.snap) = 2 /\ sq = wt.snap
    /\ \E k \in 1..2 : sq[k].id = wt.job.id /\ sq[k] # wt.job
    /\ sr # <<>> /\ sc # <<>>

\* C26: a job converted with to_dict, written by the StateStore, read back
\* and converted with from_dict equals the original field by field, for
\* every combination of set and unset optional fields.
C26_RoundTrip ==
    mt.pc = "loaded" =>
        /\ Len(mt.list) = 1
        /\ \A f \in DOMAIN wt.job : mt.list[1][f] = wt.job[f]
        /\ DOMAIN mt.list[1] = DOMAIN wt.job

\* A job with no work_dir, no times, no error_message, no job_id and the
\* empty geometry path has made the round trip.
C26_Witness ==
    /\ mt.pc = "loaded"
    /\ wt.job.wd = None /\ wt.job.start = None /\ wt.job.end = None
    /\ wt.job.err = None /\ wt.job.id = None /\ wt.job.xyz = PathOf(<<>>)
    /\ sq[1].xyz = [str |-> <<".">>]

\* s can be obtained from t by leaving elements out.
RECURSIVE IsSubseq(_, _)
IsSubseq(s, t) ==
    IF s = <<>> THEN TRUE
    ELSE IF t = <<>> THEN FALSE
    ELSE IF Head(s) = Head(t) THEN IsSubseq(Tail(s), Tail(t))
    ELSE IsSubseq(s, Tail(t))

\* The list file exists and holds the JSON text of a list.
Parseable == fs.path # Absent /\ fs.ino[fs.path].whole

\* C27: load_queue (load_running and load_completed are the same code on
\* another path) never raises, returns the empty list when the file is
\* absent or unparseable, and otherwise returns records in the order in
\* which they were appended.
C27_LoadDefaultAndOrder ==
    /\ Loaded # Raises
    /\ ~Parseable => Loaded = <<>>
    /\ IsSubseq([k \in 1..Len(Loaded) |-> Loaded[k].id], hist.app)

\* On a file that started without a list, job 2 and then job 1 were
\* appended, and the load returns them in that order.
C27_Witness ==
    /\ Parseable
    /\ hist.app = <<2, 1>>
    /\ Len(Loaded) = 2 /\ Loaded[1].id = 2 /\ Loaded[2].id = 1

\* A worker takes a job from the FIFO in this step.
Dequeues(w) == wk[w].pc = "get" /\ wk'[w].pc = "got"

\* C28: jobs put by one thread are dequeued in the order in which that
\* thread put them: the job a worker takes is the job at the head, and no
\* job that stays in the FIFO was put earlier by the thread that put it.
C28_ProducerOrder ==
    [][\A w \in Workers : Dequeues(w) =>
          /\ Len(hist.by) = Len(job_queue)
          /\ wk'[w].job = job_queue[1]
          /\ \A k \in 2..Len(job_queue) :
                hist.by[k].by = hist.by[1].by => hist.by[1].n < hist.by[k].n]_vars

\* The observer thread put two jobs before any was taken; a worker has
\* taken the first one and the second one is still in the FIFO.
C28_Witness ==
    /\ \E w \in Workers : wk[w].pc = "got" /\ wk[w].job.id = 1
    /\ Len(job_queue) = 1 /\ job_queue[1].id = 2
    /\ hist.by = << [by |-> ObserverThread, n |-> 2] >>
    /\ \A id \in 1..MaxId : hist.execs[id] = 0

\* The monitor loop sends an alert in this step.
Emits == nt'.now # nt.now /\ nt'.sent

\* C29: the monitor loop emits an alert at a poll only if the value of the
\* previous poll was above the threshold and the value of this poll is at or
\* below it, and two alerts are never less than debounce_seconds apart.
C29_AlertOnDownwardCrossing ==
    [][Emits =>
          /\ nt.prev # NoValue /\ nt.prev > nt.threshold
          /\ nt'.prev <= nt.threshold
          /\ nt.alerted # NoValue => nt.now - nt.alerted >= nt.debounce]_vars

\* C30: in a frequency deck the solvent keyword is present exactly when the
\* configured solvent model is one of CPCM, SMD, COSMO, its form is
\* MODEL(Name) with the capitalized solvent name, and it is the keyword of
\* the optimize deck written from the same configuration.
C30_FreqSolventKeyword ==
    dk.freq # NoDeck =>
        LET model == upper(strip(dk.cfg.solvent_model))
            name == capitalize(strip(dk.cfg.solvent_name))
        IN  /\ dk.freq.solvent # <<>> <=> model \in SolventModels
            /\ model \in SolventModels =>
                  dk.freq.solvent = <<model, Lit("("), name, Lit(")")>>
            /\ dk.opt # NoDeck => dk.freq.solvent = dk.opt.solvent

\* Worker w's call of ORCAExecutor.run returns in this step.
RunReturns(w) == wk[w].pc = "solving" /\ wk'[w].pc = "rmW"

\* C31: when run returns after the solver left no primary output in the
\* work_dir, or after spawning the solver raised, it returns the fatal
\* outcome, the job's status is error and its error_message is set.
C31_NoOutputOrSpawnFailureFatal ==
    [][\A w \in Workers :
          (RunReturns(w)
              /\ (wk'[w].log.raised \/ ~OutputIn(wk[w].wd)'.exists))
          => /\ wk'[w].res = <<FALSE, FALSE, TRUE>>
             /\ wk'[w].job.status = "error"
             /\ wk'[w].job.err # ""]_vars

\* A run has returned fatal without a primary output in its work_dir.
C31_Witness ==
    \E w \in Workers :
        /\ wk[w].pc = "rmW" /\ ~wk[w].log.raised
        /\ ~OutputIn(wk[w].wd).exists
        /\ wk[w].res[3] /\ wk[w].job.err = "Primary output not found"

\* The work_dirs that hold a .lock.
LockedDirs == {d.name : d \in {e \in working : e.lock}}

\* Control returns from ORCAExecutor.run to worker w in this step, by a
\* return or by an exception, with the work_dir on disk.
RunExits(w) ==
    /\ wk[w].pc \in {"addrW", "solving"} /\ wk'[w].pc \in {"rmW", "loop"}
    /\ wk[w].wd \in WorkDirs /\ wk[w].wd \in WorkDirs'

\* C32: on every exit path of run after the .lock was written, the .lock is
\* absent from the work_dir when control is back in the worker.
C32_LockAbsentAtReturn ==
    [][\A w \in Workers : RunExits(w) => wk[w].wd \notin LockedDirs']_vars

\* The delays of the claim: 100 ms, 200 ms, 400 ms, 800 ms.
Delays == <<100, 200, 400, 800>>

\* C33: safe_read_text makes at most 5 attempts, returns the text at the
\* first attempt that succeeds, has slept 100, 200, 400, 800 ms between the
\* attempts made and not after the last one, returns None after the fifth
\* failure, and an unreadable output is then classified (fatal).
C33_BoundedBackoff ==
    /\ rd.attempt <= 5
    /\ Len(rd.slept) <= 4
    /\ \A k \in 1..Len(rd.slept) : rd.slept[k] = Delays[k]
    /\ rd.pc = "read" => Len(rd.slept) = rd.attempt
    /\ rd.pc \in {"returned", "parsed"} =>
          IF rd.text = NoText
          THEN rd.attempt = 5 /\ rd.slept = Delays
          ELSE rd.text = rd.file /\ rd.attempt < 5 /\ Len(rd.slept) = rd.attempt
    /\ (rd.pc = "parsed" /\ rd.text = NoText) => rd.res = <<FALSE, FALSE, TRUE>>

\* Five reads have failed and the output was classified.
C33_Witness ==
    /\ rd.pc = "parsed" /\ rd.text = NoText /\ rd.attempt = 5
    /\ rd.slept = Delays /\ rd.res[3]

\* No worker thread has been started yet: recovery runs before the workers.
BeforeWorkers == \A w \in Workers : wk[w].pc = "unborn" /\ wk'[w].pc = "unborn"

\* C34: the step of _recover_on_start that loads the persisted queued list
\* appends one job per record to the FIFO, in the persisted order and with
\* job_id, deck path, kind and retries of the record; nothing the main
\* thread puts for a running record or an orphan deck is in the FIFO before
\* them, and until the workers start every later put lands behind them.
C34_QueuedRecoveredInOrder ==
    [][/\ RecStep("rq") =>
            /\ Len(job_queue') = Len(job_queue) + Len(sq)
            /\ \A k \in 1..Len(sq) :
                 LET j == job_queue'[Len(job_queue) + k] IN
                   /\ j.id = sq[k].id /\ j.inp = sq[k].inp
                   /\ j.kind = sq[k].kind /\ j.retries = sq[k].retries
            /\ \A p \in 1..Len(hist.by) : hist.by[p].by # MainThread
            /\ Len(hist.by) = Len(job_queue)
       /\ (BeforeWorkers /\ crashes' = crashes) =>
            /\ Len(job_queue') >= Len(job_queue)
            /\ SubSeq(job_queue', 1, Len(job_queue)) = job_queue]_vars

\* After a restart recovery has put two persisted queued records into the
\* FIFO, the first of them a job that had already been retried, and is now
\* past the running list and the orphan scan with a further job behind them.
C34_Witness ==
    /\ crashes >= 1 /\ mt.pc = "orphan" /\ mt.decks = {}
    /\ \A w \in Workers : wk[w].pc = "unborn"
    /\ Len(job_queue) >= 3
    /\ job_queue[1].id # job_queue[2].id
    /\ hist.by[1].by = MainThread /\ hist.by[2].by = MainThread
    /\ hist.by[3].by = MainThread

\* The orphan scan handles one deck of the waiting directory (lines 442-449).
OrphanStep == mt.pc = "orphan" /\ mt'.pc = "oenqW" /\ crashes' = crashes

\* C35: the orphan scan of recovery makes one job per deck of the waiting
\* directory, of kind frequency exactly when the stem ends with _freq; a
\* deck whose name collides with no other file is not renamed: the job's
\* deck path is the path the glob listed, and the file is still there.
C35_OrphanDeckKeepsPath ==
    [][OrphanStep =>
          /\ Cardinality(mt.decks \ mt'.decks) = 1
          /\ \A inp \in mt.decks \ mt'.decks :
               /\ mt'.job.kind = FREQ <=> inp[Len(inp)] = "freq"
               /\ mt'.job.inp = inp
               /\ mt'.job.inp \in waiting'
               /\ waiting' = waiting]_vars

\* C36: recovery moves a running record whose output is classified fatal
\* from the running list to the completed list and leaves the fatal flag
\* alone; when _recover_on_start has returned has_fatal_error() is false and
\* the worker threads are started.
C36_RecoveredFatalNotFlagged ==
    [][/\ (RecStep("rrmW") /\ mt.found /\ mt.res[3])
             => /\ mt'.pc = "rappW"
                /\ ~HasId(sr', RecRecord.id)
                /\ fatal' = fatal
       /\ (RecStep("rappW") /\ mt.res[3])
             => /\ HasId(sc', RecRecord.id)
                /\ ~HasId(sr', RecRecord.id)
                /\ fatal' = fatal
       /\ (mt.pc = "orphan" /\ mt'.pc = "host")
             => /\ ~has_fatal_error /\ ~has_fatal_error'
                /\ \A w \in ThreadNames(mt.par) : wk'[w].pc = "loop"]_vars

\* After a restart the completed list holds a record recovery took from the
\* running list (its status is still waiting) whose work_dir holds a fatal
\* output; the flag is down and a worker has been started.
C36_Witness ==
    /\ crashes >= 1 /\ mt.pc = "host" /\ ~has_fatal_error /\ sr = <<>>
    /\ \E w \in Workers : wk[w].pc = "loop"
    /\ \E k \in 1..Len(sc) :
         /\ sc[k].status = "waiting" /\ sc[k].wd # NoDir
         /\ WorkDirExists(sc[k].wd)
         /\ safe_parse_orca_output(resolve_primary_output(OutputIn(sc[k].wd)))[3]

\* The file names in alphabetical order.
Alphabet ==
    << <<"a", ".inp">>, <<"a", ".log">>, <<"a", ".out">>,
       <<"a", "_orca", ".log">>, <<"b", ".log">>, <<"b", ".out">>,
       <<"b", "_orca", ".log">>, <<"m", ".log">>, <<"m", ".out">>,
       <<"m", "_orca", ".log">> >>
Rank(n) == CHOOSE k \in 1..Len(Alphabet) : Alphabet[k] = n
First(names) == CHOOSE x \in names : \A y \in names : Rank(x) <= Rank(y)
Matching(D, pattern) == {glob(D, pattern)[i] : i \in 1..Len(glob(D, pattern))}

\* The first existing of stem.out, stem_orca.log and stem.log, else a file
\* of the first non-empty class among *.out, *_orca.log and *.log, else
\* none.
ResolvedInClass(D, stem, ret) ==
    LET files == {D[i] : i \in 1..Len(D)} IN
    IF <<stem, ".out">> \in files THEN ret = <<stem, ".out">>
    ELSE IF <<stem, "_orca", ".log">> \in files
         THEN ret = <<stem, "_orca", ".log">>
    ELSE IF <<stem, ".log">> \in files THEN ret = <<stem, ".log">>
    ELSE IF Matching(D, <<".out">>) # {} THEN ret \in Matching(D, <<".out">>)
    ELSE IF Matching(D, <<"_orca", ".log">>) # {}
         THEN ret \in Matching(D, <<"_orca", ".log">>)
    ELSE IF Matching(D, <<".log">>) # {} THEN ret \in Matching(D, <<".log">>)
    ELSE ret = NoPath

\* The path the resolver is to return: the class as above, and within the
\* class the alphabetically first file.
Expected(D, stem) ==
    LET files == {D[i] : i \in 1..Len(D)} IN
    IF <<stem, ".out">> \in files THEN <<stem, ".out">>
    ELSE IF <<stem, "_orca", ".log">> \in files
         THEN <<stem, "_orca", ".log">>
    ELSE IF <<stem, ".log">> \in files THEN <<stem, ".log">>
    ELSE IF Matching(D, <<".out">>) # {} THEN First(Matching(D, <<".out">>))
    ELSE IF Matching(D, <<"_orca", ".log">>) # {}
         THEN First(Matching(D, <<"_orca", ".log">>))
    ELSE IF Matching(D, <<".log">>) # {} THEN First(Matching(D, <<".log">>))
    ELSE NoPath

\* The result is of the right class, whatever the order of the listing.
ResolveClass ==
    ls.pc = "returned" => ResolvedInClass(ls.dir, ls.stem, ls.ret)

\* C37: resolve_primary_output returns the first existing of stem.out,
\* stem_orca.log and stem.log; else a file matching *.out, else one
\* matching *_orca.log, else one matching *.log, the alphabetically first
\* of its class; it returns none only when the directory has no such file.
C37_ResolveOrder ==
    ls.pc = "returned" =>
        /\ ls.ret = Expected(ls.dir, ls.stem)
        /\ ls.ret = NoPath <=>
             \A i \in 1..Len(ls.dir) : ls.dir[i][Len(ls.dir[i])] = ".inp"

\* The output recovery finds for running record j was written by j's own
\* run: it lies in j's work_dir, or in the archive directory that work_dir
\* was moved into.
OwnOutput(j) ==
    \/ /\ j.wd # NoDir /\ WorkDirExists(j.wd)
       /\ OutputIn(j.wd).exists
    \/ LET subdirs == Subdirs(MoleculeName(j.inp)) IN
         /\ Len(subdirs) > 0
         /\ j.wd \in subdirs[Len(subdirs)].srcs

\* C38: recovery appends a running record to the completed list only on
\* the evidence of an output of that same job, never on an output another
\* job of the same molecule left in the most recent archive directory.
C38_CompletedOnOwnOutput ==
    [][RecStep("rappW") => OwnOutput(RecRecord)]_vars

\* Worker w comes to the end of its pass through the loop body with the
\* job it took off the FIFO.
PassEnds(w) ==
    /\ InStep(w) /\ wk[w].job.id # 0
    /\ wk'[w].pc \in {"loop", "exited"} /\ crashes' = crashes

\* C39: when a worker is done with a job it took off the FIFO, also
\* because ORCAExecutor.run raised, the job has left the running state: no
\* entry of the running map and no record of the persisted running list
\* carries its id; the running map never holds more than max_parallel
\* entries.
C39_LeavesRunning ==
    [][/\ \A w \in Workers : PassEnds(w) =>
            /\ ~HasId(sr', wk[w].job.id)
            /\ \A r \in running' : r.id # wk[w].job.id
       /\ Cardinality(running') <= mt.par]_vars

\* Some record of the persisted list is a job on deck inp.
HasDeck(list, inp) == \E k \in 1..Len(list) : list[k].inp = inp

\* C40: after a restart the orphan scan makes no second job of a deck: the
\* deck it submits under a new job_id is the deck of no record of the
\* persisted queued, running or completed list.
C40_NoDeckSubmittedTwice ==
    [][(OrphanStep /\ crashes >= 1) =>
          \A inp \in mt.decks \ mt'.decks :
             /\ ~HasDeck(sq, inp) /\ ~HasDeck(sr, inp) /\ ~HasDeck(sc, inp)
             /\ \A k \in 1..Len(job_queue) : job_queue[k].inp # inp]_vars

====
